---- MODULE Spec2Model ----
(***************************************************************************)
(* Model of the observable / persisted property core of omni-state:        *)
(* ObservableProperty, StatefulProperty, the module-level pending-read map *)
(* of StatefulProperty and the StateManager registry.                      *)
(*                                                                         *)
(* JavaScript values are records [t, v]: undefined, null, a primitive, a   *)
(* reference to a heap object {n: <field>}, or an updater function.        *)
(* Objects live in `heap` so that aliasing (who shares which object) is    *)
(* part of the state.                                                      *)
(***************************************************************************)
EXTENDS Integers, Sequences, FiniteSets, TLC

\* ------------------------------------------------------------------ bounds
MaxObj   == 6      \* heap cells
MaxField == 2      \* values of the field n of an object {n: ...}
MaxSubs  == 2      \* length of a subscriber list
MaxWrites == 2     \* writes an asynchronous storage has not applied yet

Props    == {1, 2}
Refs     == 1..MaxObj
Fields   == 1..MaxField
Handlers == {"A", "B"}       \* handlers that keep what they are handed
Writers  == {"M"}            \* a handler that writes to the object it is handed
Setters  == {"R"}            \* a handler that calls set on the property it observes
Throwers == {"T"}            \* a handler that raises when it is invoked
Detachers == {"U"}           \* a handler that calls unsubscribe(B) on its property
Attachers == {"S", "SS"}     \* handlers that call subscribe: S for B, SS for itself
Keys     == {"k1", "k2"}
Proms    == {1, 2}            \* futures the application hands to StateManager
CallIds  == {"SP", "SM"}      \* StatefulProperty.allSettled, StateManager.allSettled

\* ------------------------------------------------------------------ values
Undef    == [t |-> "undef", v |-> 0]
Null     == [t |-> "null", v |-> 0]
Prim(i)  == [t |-> "prim", v |-> i]
Obj(r)   == [t |-> "obj", v |-> r]
\* an updater function: draft => { draft.n = k } for k > 0, and an updater
\* that leaves its draft alone for k = 0
Fn(k)    == [t |-> "fn", v |-> k]
\* an updater that raises after its write: draft => { draft.n = k; throw e }
FnThrow(k) == [t |-> "fn", v |-> 10 + k]
\* an updater that leaves its draft alone and returns a value: draft => 'new'
FnReturn == [t |-> "fn", v |-> 20]
\* the JSON text of an object {n: f}, as a storage backend keeps it
Json(f)  == [t |-> "json", v |-> f]
\* the number Infinity, which JSON has no text for
Inf      == [t |-> "inf", v |-> 0]

VARIABLES
    heap,         \* [Refs -> 0..MaxField]: field n of each object, 0 = free cell
    phase,        \* [Props -> lifecycle of the instance]
    value,        \* [Props -> ObservableProperty._value]
    subscribers,  \* [Props -> ObservableProperty._subscribers]
    propKey,      \* [Props -> StatefulProperty._key]
    store,        \* the synchronous storage backend: [Keys -> stored text]
    held,         \* the value the application got from its last get()
    calls,        \* subscriber invocations made by the last operation: Seq([h, arg])
    ops,          \* storage operations issued by the last operation
    last,         \* the last operation the application performed
    world,        \* the scenario: "sync", "restore", "registry", ...
    astore,       \* the asynchronous storage backend: [Keys -> stored text]
    readVal,      \* [Props -> the text the restore read of the property delivers]
    pending,      \* _pendingPromises of StatefulProperty: Seq([key, prom])
    registry,     \* _pendingPromises of StateManager: Seq([key, prom])
    prom,         \* [Proms -> [st, val]]: the application's futures
    settle,       \* [CallIds -> the allSettled call of that kind]
    inflight,     \* writes issued to the asynchronous storage, not yet applied
    raced,        \* the properties set before their restore was applied
    active        \* the most set calls on one instance ever in progress at once

propVars  == <<heap, phase, value, subscribers, propKey, store, held, calls, ops>>
asyncVars == <<astore, readVal, pending, registry, prom, settle, inflight, raced, active>>
vars == <<heap, phase, value, subscribers, propKey, store, held, calls, ops,
          last, world, astore, readVal, pending, registry, prom, settle,
          inflight, raced, active>>

\* ------------------------------------------------------------- heap helpers
FreeRefs(h) == {r \in Refs : h[r] = 0}

Alloc(h) == CHOOSE r \in FreeRefs(h) : \A q \in FreeRefs(h) : r <= q

RefsOf(x) == IF x.t = "obj" THEN {x.v} ELSE {}

RECURSIVE SeqRefs(_)
SeqRefs(cs) == IF cs = <<>> THEN {} ELSE RefsOf(Head(cs).arg) \cup SeqRefs(Tail(cs))

\* the objects something still refers to: the properties' values, the
\* application's handle and the arguments handed to the subscribers
Roots(val, hld, cs) ==
    UNION {RefsOf(val[p]) : p \in Props} \cup RefsOf(hld) \cup SeqRefs(cs)

\* garbage collection: a cell nothing refers to is free again
Collect(h, roots) == [r \in Refs |-> IF r \in roots THEN h[r] ELSE 0]

\* Object identity is kept up to renaming: after every operation the live
\* objects are numbered in the order in which the roots mention them.
RootSeq(val, hld, cs) ==
    [i \in 1..Cardinality(Props) |-> val[i]] \o <<hld>>
        \o [i \in 1..Len(cs) |-> cs[i].arg]

RECURSIVE FirstRefs(_, _)
FirstRefs(xs, acc) ==
    IF xs = <<>> THEN acc
    ELSE LET x == Head(xs)
         IN  FirstRefs(Tail(xs),
                 IF x.t = "obj" /\ ~ \E i \in 1..Len(acc) : acc[i] = x.v
                 THEN Append(acc, x.v) ELSE acc)

Rename(x, order) ==
    IF x.t = "obj" THEN Obj(CHOOSE i \in 1..Len(order) : order[i] = x.v) ELSE x

\* the structure of a value: what a caller comparing with deep equality sees
Deref(x, h) == IF x.t = "obj" THEN Json(h[x.v]) ELSE x

\* a copy that hands back the object it was given
DeepCopyAlias(x, h) == [val |-> x, heap |-> h]

\* deepCopy(object): a primitive, null, undefined and a function are returned
\* as they are (typeof object !== 'object'), an object is cloned
DeepCopy(x, h) ==
    IF x.t = "obj"
    THEN LET r == Alloc(h) IN [val |-> Obj(r), heap |-> [h EXCEPT ![r] = h[x.v]]]
    ELSE [val |-> x, heap |-> h]

\* a test that takes only objects for defined values
isDefinedObject(x) == x.t = "obj"

isDefined(x) == x.t # "null" /\ x.t # "undef"

isFunction(x) == x.t = "fn"


\* ------------------------------------------------------- ObservableProperty
\* an exists that only tests for undefined
existsNotUndefined(p) == value[p].t # "undef"

\* exists(): the value is neither null nor undefined
exists(p) == isDefined(value[p])

\* updaters that never raise
UpdaterNeverThrows(fn, cur) == FALSE

\* an updater draft => { draft.n = k } raises a TypeError when the draft it
\* is handed is not an object; the updater that leaves its draft alone never
\* raises; an updater with a throw statement raises after its write
UpdaterThrows(fn, cur) ==
    \/ fn.v % 10 > 0 /\ cur.t # "obj"
    \/ fn.v \in 10..19

\* what the updater returns: nothing, or the value of its return statement
UpdaterReturn(fn, cur) == IF fn = FnReturn THEN Prim(2) ELSE Undef

\* an updater whose writes are lost
ApplyUpdaterLost(fn, cur, h) == h

\* valueOrFunction(this._value): the updater writes the live object in place
ApplyUpdater(fn, cur, h) ==
    IF fn.v % 10 > 0 /\ cur.t = "obj" THEN [h EXCEPT ![cur.v] = fn.v % 10] ELSE h

\* what the notification loop copies for each subscriber: the argument of set
NotifiedValue(valueOrFunction, newValue) == valueOrFunction

\* the field a writing handler puts in place of f
Bump(f) == (f % MaxField) + 1

\* subscriber(arg): the body of a handler, run inside the notification loop.
\* A writing handler does arg.n = <another value> when it is handed an object.
HandlerRun(hd, arg, h) ==
    IF hd \in Writers /\ arg.t = "obj" THEN [h EXCEPT ![arg.v] = Bump(h[arg.v])]
    ELSE h

\* a loop that stops after the first subscriber
NotifyFirstOnly(subs, x, h) ==
    IF subs = <<>>
    THEN [heap |-> h, calls |-> <<>>]
    ELSE [heap  |-> HandlerRun(Head(subs), DeepCopy(x, h).val, DeepCopy(x, h).heap),
          calls |-> <<[h |-> Head(subs), arg |-> DeepCopy(x, h).val]>>]

\* for (const subscriber of this._subscribers) subscriber(deepCopy(...))
RECURSIVE Notify(_, _, _)
Notify(subs, x, h) ==
    IF subs = <<>>
    THEN [heap |-> h, calls |-> <<>>]
    ELSE LET c    == DeepCopy(x, h)
             rest == Notify(Tail(subs), x, HandlerRun(Head(subs), c.val, c.heap))
         IN  [heap  |-> rest.heap,
              calls |-> <<[h |-> Head(subs), arg |-> c.val]>> \o rest.calls]

\* a set that leaves the value alone when it is handed undefined
ObsSetSkipsUndefined(cur, subs, valueOrFunction, h) ==
    LET stored ==
            IF valueOrFunction.t = "undef"
            THEN [val |-> cur, heap |-> h]
            ELSE IF isFunction(valueOrFunction)
                 THEN DeepCopy(cur, ApplyUpdater(valueOrFunction, cur, h))
                 ELSE DeepCopy(valueOrFunction, h)
        note == Notify(subs, NotifiedValue(valueOrFunction, stored.val), stored.heap)
    IN  [value |-> stored.val, heap |-> note.heap, calls |-> note.calls]

\* a set that stores what the updater returns, when it returns something
ObsSetUsesReturn(cur, subs, valueOrFunction, h) ==
    LET stored ==
            IF valueOrFunction.t = "undef"
            THEN [val |-> valueOrFunction, heap |-> h]
            ELSE IF isFunction(valueOrFunction)
                 THEN IF UpdaterReturn(valueOrFunction, cur) # Undef
                      THEN [val |-> UpdaterReturn(valueOrFunction, cur), heap |-> h]
                      ELSE DeepCopy(cur, ApplyUpdater(valueOrFunction, cur, h))
                 ELSE DeepCopy(valueOrFunction, h)
        note == Notify(subs, NotifiedValue(valueOrFunction, stored.val), stored.heap)
    IN  [value |-> stored.val, heap |-> note.heap, calls |-> note.calls]

\* ObservableProperty.set(valueOrFunction), for an updater that does not
\* raise.  The updater is called as a statement: what it returns is dropped.
ObsSet(cur, subs, valueOrFunction, h) ==
    LET stored ==
            IF valueOrFunction.t = "undef"
            THEN [val |-> valueOrFunction, heap |-> h]
            ELSE IF isFunction(valueOrFunction)
                 THEN DeepCopy(cur, ApplyUpdater(valueOrFunction, cur, h))
                 ELSE DeepCopy(valueOrFunction, h)
        note == Notify(subs, NotifiedValue(valueOrFunction, stored.val), stored.heap)
    IN  [value |-> stored.val, heap |-> note.heap, calls |-> note.calls]

\* ObservableProperty.get(): return this._value
ObsGet(p) == value[p]

\* what a caller of get() sees, compared by structure
GetView(p) == Deref(ObsGet(p), heap)

\* ------------------------------------------------------------ storage stub
\* JSON.stringify(value) as LocalStorage.set keeps it: the text of the
\* structure of the value, and the text null for Infinity
Ser(x, h) == IF x.t = "inf" THEN Null ELSE Deref(x, h)

\* a write-through that forgets the remove branch
WriteThroughAlwaysSet(k, newValue, h) ==
    <<[op |-> "set", key |-> k, val |-> Ser(newValue, h)]>>

\* StatefulProperty.set, after super.set: remove(key) for null / undefined,
\* set(key, newValue) otherwise
WriteThrough(k, newValue, h) ==
    IF newValue.t = "undef" \/ newValue.t = "null"
    THEN <<[op |-> "remove", key |-> k, val |-> Undef]>>
    ELSE <<[op |-> "set", key |-> k, val |-> Ser(newValue, h)]>>

\* a backend that drops what it is handed
ApplyOpsLost(st, os) == st

\* the effect of issued storage operations on a backend
RECURSIVE ApplyOps(_, _)
ApplyOps(st, os) ==
    IF os = <<>> THEN st
    ELSE LET o == Head(os)
             st1 == IF o.op = "get" THEN st
                    ELSE [st EXCEPT ![o.key] = o.val]
         IN  ApplyOps(st1, Tail(os))

\* the arguments the application passes to set: undefined, null, a string,
\* an object literal {n: f} (written Json(f)) and the updaters
SetArgs == {Undef, Null, Prim(1)} \cup {Json(f) : f \in Fields}
           \cup {Fn(k) : k \in 0..MaxField}

NoOp == [op |-> "init", p |-> 0, arg |-> Undef, ok |-> TRUE]

\* an empty Map result
EmptyMap == [x \in {} |-> Undef]

\* an allSettled call that was not made yet.  keys and proms are the snapshot
\* the call took, result the Map it resolved to; snap (the registry at the
\* call) and before (the properties whose asynchronous restore was started
\* before the call) record the moment of the call; late (the keys
\* enqueued since the call whose future has settled) and gone (the keys of
\* the snapshot dequeued since the call) record the moment a StateManager
\* call resolved.
IdleCall == [st |-> "idle", keys |-> <<>>, proms |-> <<>>, result |-> EmptyMap,
             snap |-> <<>>, before |-> {}, late |-> {}, gone |-> {}]

\* -------------------------------------------------------------------- Init
\* nothing constructed yet, no call made
InitCommon ==
    /\ heap = [r \in Refs |-> 0]
    /\ phase = [p \in Props |-> "none"]
    /\ value = [p \in Props |-> Undef]
    /\ subscribers = [p \in Props |-> <<>>]
    /\ propKey = [p \in Props |-> "k1"]
    /\ held = Undef
    /\ calls = <<>>
    /\ ops = <<>>
    /\ last = NoOp
    /\ readVal = [p \in Props |-> Undef]
    /\ pending = <<>>
    /\ registry = <<>>
    /\ prom = [q \in Proms |-> [st |-> "pending", val |-> Undef]]
    /\ settle = [c \in CallIds |-> IdleCall]
    /\ inflight = <<>>
    /\ raced = {}
    /\ active = 0

\* properties over the synchronous storage, which may hold earlier values
Init ==
    /\ InitCommon
    /\ world = "sync"
    /\ store \in [Keys -> {Undef, Prim(1), Json(1)}]
    /\ astore = [k \in Keys |-> Undef]

\* properties over an asynchronous storage that may hold earlier values, or
\* an application that drives the StateManager registry itself
InitAsync ==
    /\ InitCommon
    /\ store = [k \in Keys |-> Undef]
    /\ \/ world = "restore" /\ astore \in [Keys -> {Undef, Prim(1), Json(2)}]
       \/ world = "registry" /\ astore = [k \in Keys |-> Undef]

\* the values, the handle, the subscriber arguments and the heap after an
\* operation, with the unreachable objects collected
Commit(val, hld, cs, h) ==
    \E order \in {FirstRefs(RootSeq(val, hld, cs), <<>>)} :
        /\ value' = [p \in Props |-> Rename(val[p], order)]
        /\ held' = Rename(hld, order)
        /\ calls' = [i \in 1..Len(cs) |->
                        [h |-> cs[i].h, arg |-> Rename(cs[i].arg, order)]]
        /\ heap' = [r \in Refs |-> IF r <= Len(order) THEN h[order[r]] ELSE 0]

\* the properties the synchronous scenario constructs
SyncProps == {1}

\* ----------------------------------------------------------------- actions
\* new ObservableProperty()
NewObservable(p) ==
    /\ phase[p] = "none"
    /\ phase' = [phase EXCEPT ![p] = "obs"]
    /\ last' = [op |-> "newObs", p |-> p, arg |-> Undef, ok |-> TRUE]
    /\ ops' = <<>>
    /\ Commit(value, held, <<>>, heap)
    /\ UNCHANGED <<subscribers, propKey, store, world, asyncVars>>

\* a read that delivers nothing
ParsedValueNone(text, h) == Undef

\* storage.get(key): JSON.parse of the stored text, a new object each time
ParsedValue(text, h) == IF text.t = "json" THEN Obj(Alloc(h)) ELSE text
ParsedHeap(text, h) ==
    IF text.t = "json" THEN [h EXCEPT ![Alloc(h)] = text.v] ELSE h

\* a restore that writes what it read back to the storage
RestoreOpsWriteBack(k, text) ==
    <<[op |-> "get", key |-> k, val |-> Undef]>>
        \o (IF isDefined(text) THEN <<[op |-> "set", key |-> k, val |-> text]>>
            ELSE <<>>)

\* the storage operations of _initFromStorage: this._storage.get(this._key)
\* and nothing else, whatever text the storage holds
RestoreOps(k, text) == <<[op |-> "get", key |-> k, val |-> Undef]>>

\* new StatefulProperty({storage: LocalStorage, key: k}): _initFromStorage
\* over a synchronous storage
NewStatefulSync(p, k) ==
    /\ phase[p] = "none"
    /\ LET h0 == Collect(heap, Roots(value, held, <<>>))
       IN  /\ Cardinality(FreeRefs(h0)) >= 2
           /\ LET storageValue == ParsedValue(store[k], h0)
              IN  \E r \in {IF isDefined(storageValue)
                             THEN ObsSet(value[p], subscribers[p], storageValue,
                                         ParsedHeap(store[k], h0))
                             ELSE [value |-> value[p], heap |-> h0, calls |-> <<>>]} :
                      Commit([value EXCEPT ![p] = r.value], held, r.calls, r.heap)
    /\ phase' = [phase EXCEPT ![p] = "sync"]
    /\ propKey' = [propKey EXCEPT ![p] = k]
    /\ ops' = RestoreOps(k, store[k])
    /\ last' = [op |-> "newSync", p |-> p, arg |-> Undef, ok |-> TRUE]
    /\ UNCHANGED <<subscribers, store, world, asyncVars>>

\* the arguments of new StatefulProperty({storage, key, encoder}): whether a
\* storage is passed, the key (possibly empty), the version of the class (the
\* one with an encoder parameter or the one without) and the encoder passed:
\* none, JSON, or an object lacking parse or stringify
Configs ==
    {[storage |-> s, key |-> k, variant |-> "plain", encoder |-> "none"] :
        s \in BOOLEAN, k \in Keys \cup {""}}
    \cup {[storage |-> TRUE, key |-> k, variant |-> "encoder", encoder |-> c] :
        k \in Keys, c \in {"none", "json", "noParse", "noStringify"}}

\* a constructor that does not look at the storage argument
ConstructorThrowsKeyOnly(cfg) ==
    \/ cfg.key = ""
    \/ cfg.variant = "encoder" /\ cfg.encoder \in {"noParse", "noStringify"}

\* the validation of the constructor: if (!storage) throw, if (!key) throw,
\* and with an encoder parameter if (encoder && !isFunction(encoder.parse))
\* throw, if (encoder && !isFunction(encoder.stringify)) throw
ConstructorThrows(cfg) ==
    \/ ~ cfg.storage
    \/ cfg.key = ""
    \/ cfg.variant = "encoder" /\ cfg.encoder \in {"noParse", "noStringify"}

\* new StatefulProperty(cfg): super(), the validation, then _initFromStorage.
\* A rejected construction yields no instance.  With an encoder the restore
\* decodes the stored text with encoder.parse, which for JSON is what
\* LocalStorage.get does.
NewStateful(p, cfg) ==
    IF ConstructorThrows(cfg)
    THEN /\ phase[p] = "none"
         /\ last' = [op |-> "new", p |-> p, ok |-> FALSE,
                     arg |-> [t |-> "cfg", v |-> 0, cfg |-> cfg]]
         /\ ops' = <<>>
         /\ Commit(value, held, <<>>, heap)
         /\ UNCHANGED <<phase, subscribers, propKey, store, world, asyncVars>>
    ELSE NewStatefulSync(p, cfg.key)

\* the application builds the argument of a set call; an object literal is a
\* new object
SetHeap == Collect(heap, Roots(value, held, <<>>))
SetArgValue(a) == IF a.t = "json" THEN Obj(Alloc(SetHeap)) ELSE a
SetArgHeap(a) == IF a.t = "json" THEN [SetHeap EXCEPT ![Alloc(SetHeap)] = a.v]
                 ELSE SetHeap

\* a set call whose updater raises: the exception leaves set before anything
\* is stored, notified or written; what the updater wrote to the live
\* object before it raised stays written
SetThrows(p, a) ==
    /\ last' = [op |-> "set", p |-> p, arg |-> a, ok |-> FALSE]
    /\ ops' = <<>>
    /\ Commit(value, held, <<>>, ApplyUpdater(a, value[p], heap))
    /\ UNCHANGED <<phase, subscribers, propKey, store, world, asyncVars>>

\* ObservableProperty.set(valueOrFunction) on a plain observable property
ObservableSet(p, a) ==
    /\ phase[p] = "obs"
    /\ Cardinality(FreeRefs(SetHeap)) >= 2 + Len(subscribers[p])
    /\ IF isFunction(a) /\ UpdaterThrows(a, value[p])
       THEN SetThrows(p, a)
       ELSE \E r \in {ObsSet(value[p], subscribers[p], SetArgValue(a), SetArgHeap(a))} :
                /\ Commit([value EXCEPT ![p] = r.value], held, r.calls, r.heap)
                /\ ops' = <<>>
                /\ last' = [op |-> "set", p |-> p, arg |-> a, ok |-> TRUE]
                /\ UNCHANGED <<phase, subscribers, propKey, store, world, asyncVars>>

\* StatefulProperty.set(valueOrFunction): super.set, super.get, write-through
StatefulSet(p, a) ==
    /\ phase[p] = "sync"
    /\ Cardinality(FreeRefs(SetHeap)) >= 2 + Len(subscribers[p])
    /\ IF isFunction(a) /\ UpdaterThrows(a, value[p])
       THEN SetThrows(p, a)
       ELSE \E r \in {ObsSet(value[p], subscribers[p], SetArgValue(a), SetArgHeap(a))} :
            LET newValue == r.value
                w == WriteThrough(propKey[p], newValue, r.heap)
            IN  /\ Commit([value EXCEPT ![p] = r.value], held, r.calls, r.heap)
                /\ ops' = w
                /\ store' = ApplyOps(store, w)
                /\ last' = [op |-> "set", p |-> p, arg |-> a, ok |-> TRUE]
                /\ UNCHANGED <<phase, subscribers, propKey, world, asyncVars>>

\* the application calls get() and keeps what it is handed
Get(p) ==
    /\ phase[p] # "none"
    /\ Commit(value, ObsGet(p), <<>>, heap)
    /\ ops' = <<>>
    /\ last' = [op |-> "get", p |-> p, arg |-> Undef, ok |-> TRUE]
    /\ UNCHANGED <<phase, subscribers, propKey, store, world, asyncVars>>

\* the application writes field n of the object get() handed it
MutateHeld(f) ==
    /\ held.t = "obj"
    /\ heap[held.v] # f
    /\ Commit(value, held, <<>>, [heap EXCEPT ![held.v] = f])
    /\ ops' = <<>>
    /\ last' = [op |-> "mutate", p |-> 0, arg |-> Json(f), ok |-> TRUE]
    /\ UNCHANGED <<phase, subscribers, propKey, store, world, asyncVars>>

\* the longest subscriber list of the scenario: one more where the handlers
\* are what the scenario is about, a single subscriber where the storage is
SubsBound == IF world \in {"notify", "relist", "throw"} THEN MaxSubs + 1
             ELSE IF world \in {"race", "updater"} THEN 1 ELSE MaxSubs

\* subscribe(handler): this._subscribers.push(handler)
Subscribe(p, hd) ==
    /\ phase[p] # "none"
    /\ Len(subscribers[p]) < SubsBound
    /\ subscribers' = [subscribers EXCEPT ![p] = Append(@, hd)]
    /\ last' = [op |-> "subscribe", p |-> p, arg |-> Undef, ok |-> TRUE]
    /\ ops' = <<>>
    /\ Commit(value, held, <<>>, heap)
    /\ UNCHANGED <<phase, propKey, store, world, asyncVars>>

\* a removal of the first occurrence only
WithoutFirst(subs, hd) ==
    IF \E i \in 1..Len(subs) : subs[i] = hd
    THEN LET i == CHOOSE j \in 1..Len(subs) :
                      subs[j] = hd /\ \A l \in 1..(j - 1) : subs[l] # hd
         IN  SubSeq(subs, 1, i - 1) \o SubSeq(subs, i + 1, Len(subs))
    ELSE subs

\* this._subscribers.filter(subscriber => subscriber !== handler)
RECURSIVE Without(_, _)
Without(subs, hd) ==
    IF subs = <<>> THEN <<>>
    ELSE IF Head(subs) = hd THEN Without(Tail(subs), hd)
         ELSE <<Head(subs)>> \o Without(Tail(subs), hd)

\* unsubscribe(handler)
Unsubscribe(p, hd) ==
    /\ phase[p] # "none"
    /\ subscribers' = [subscribers EXCEPT ![p] = Without(@, hd)]
    /\ last' = [op |-> "unsubscribe", p |-> p, arg |-> Undef, ok |-> TRUE]
    /\ ops' = <<>>
    /\ Commit(value, held, <<>>, heap)
    /\ UNCHANGED <<phase, propKey, store, world, asyncVars>>

Next ==
    \/ \E p \in SyncProps : NewObservable(p)
    \/ \E p \in SyncProps, cfg \in Configs : NewStateful(p, cfg)
    \/ \E p \in Props, a \in SetArgs : ObservableSet(p, a)
    \/ \E p \in Props, a \in SetArgs : StatefulSet(p, a)
    \/ \E p \in Props : Get(p)
    \/ \E f \in Fields : MutateHeld(f)
    \/ \E p \in Props, hd \in Handlers : Subscribe(p, hd)
    \/ \E p \in Props, hd \in Handlers : Unsubscribe(p, hd)

Spec == Init /\ [][Next]_vars


\* ------------------------------------------------- asynchronous restore
\* A JavaScript Map, kept as the sequence of its entries in insertion order
MapHas(m, k) == \E i \in 1..Len(m) : m[i].key = k

\* a set that always adds an entry and keeps the prior one
MapSetAppend(m, k, v) == Append(m, [key |-> k, prom |-> v])

\* Map.set(k, v): replaces the value in place, or appends a new entry
MapSet(m, k, v) ==
    IF MapHas(m, k)
    THEN [i \in 1..Len(m) |-> IF m[i].key = k THEN [key |-> k, prom |-> v] ELSE m[i]]
    ELSE Append(m, [key |-> k, prom |-> v])

\* Map.delete(k)
RECURSIVE MapDelete(_, _)
MapDelete(m, k) ==
    IF m = <<>> THEN <<>>
    ELSE IF Head(m).key = k THEN MapDelete(Tail(m), k)
         ELSE <<Head(m)>> \o MapDelete(Tail(m), k)

\* keys taken with Object.keys instead of Map.keys
MapKeysOfObject(m) == <<>>

\* Array.from(map.keys()), Array.from(map.values())
MapKeys(m) == [i \in 1..Len(m) |-> m[i].key]
MapValues(m) == [i \in 1..Len(m) |-> m[i].prom]

\* Object.keys(map): a Map has no own enumerable properties
ObjectKeys(m) == <<>>

\* the future a StatefulProperty registers: Promise.resolve(read).then(...),
\* and a future of the application
PropPromise(p) == [kind |-> "prop", id |-> p]
AppPromise(q)  == [kind |-> "app", id |-> q]

AsyncPhases == {"reading", "readFulfilled", "applied", "failed"}

\* the state of the raw read instead of the future .then returns
PromiseStateOfRead(pr) ==
    IF pr.kind = "prop"
    THEN IF phase[pr.id] \in {"readFulfilled", "applied"} THEN "fulfilled"
         ELSE IF phase[pr.id] = "failed" THEN "rejected" ELSE "pending"
    ELSE prom[pr.id].st

\* the state of a registered future.  The future of a property is the one
\* .then returns: fulfilled once the continuation has run, rejected when the
\* read was rejected.
PromiseState(pr) ==
    IF pr.kind = "prop"
    THEN IF phase[pr.id] = "applied" THEN "fulfilled"
         ELSE IF phase[pr.id] = "failed" THEN "rejected" ELSE "pending"
    ELSE prom[pr.id].st

\* outcome[i].value of Promise.allSettled: the value of a fulfilled future, and
\* undefined for a rejected one, which has a reason and no value
OutcomeValue(pr) ==
    IF PromiseState(pr) = "fulfilled"
    THEN IF pr.kind = "prop" THEN readVal[pr.id] ELSE prom[pr.id].val
    ELSE Undef

\* Promise.all(list).then(...): the callback runs only if all are fulfilled
AllFulfilled(proms) == \A i \in 1..Len(proms) : PromiseState(proms[i]) = "fulfilled"

\* Promise.allSettled(list).then(...) runs once every future of the list is
\* settled, fulfilled or rejected
AllDone(proms) == \A i \in 1..Len(proms) : PromiseState(proms[i]) # "pending"

\* keys[i] of a JavaScript array: undefined past its end
KeyAt(keys, i) == IF i <= Len(keys) THEN keys[i] ELSE "undefined"

\* result.set(k, v) on the result Map
MapPut(m, k, v) == [x \in DOMAIN m \cup {k} |-> IF x = k THEN v ELSE m[x]]

\* a result built from the registry as it is when the call resolves
BuildResultFromRegistry(keys, proms, i, m) ==
    [k \in {registry[j].key : j \in 1..Len(registry)} |->
        OutcomeValue((CHOOSE e \in {registry[j] : j \in 1..Len(registry)} : e.key = k).prom)]

\* for (i = 0; i < outcome.length; i++) result.set(keys[i], outcome[i].value)
RECURSIVE BuildResult(_, _, _, _)
BuildResult(keys, proms, i, m) ==
    IF i > Len(proms) THEN m
    ELSE BuildResult(keys, proms, i + 1,
                     MapPut(m, KeyAt(keys, i), OutcomeValue(proms[i])))

\* new StatefulProperty({storage, key: k}) over an asynchronous storage:
\* _initFromStorage registers the continuation of the read under the key
NewStatefulAsync(p, k) ==
    /\ world \in {"restore", "race", "shared"}
    /\ phase[p] = "none"
    /\ phase' = [phase EXCEPT ![p] = "reading"]
    /\ propKey' = [propKey EXCEPT ![p] = k]
    /\ readVal' = [readVal EXCEPT ![p] = astore[k]]
    /\ pending' = MapSet(pending, k, PropPromise(p))
    /\ ops' = RestoreOps(k, astore[k])
    /\ last' = [op |-> "newAsync", p |-> p, arg |-> Undef, ok |-> TRUE]
    /\ UNCHANGED <<heap, value, subscribers, store, held, calls, world,
                   astore, registry, prom, settle, inflight, raced, active>>

\* the storage fulfils the read
ReadFulfil(p) ==
    /\ phase[p] = "reading"
    /\ phase' = [phase EXCEPT ![p] = "readFulfilled"]
    /\ UNCHANGED <<heap, value, subscribers, propKey, store, held, calls, ops,
                   last, world, asyncVars>>

\* the storage rejects the read: the continuation is skipped and the future
\* .then returned is rejected
ReadReject(p) ==
    /\ phase[p] = "reading"
    /\ phase' = [phase EXCEPT ![p] = "failed"]
    /\ UNCHANGED <<heap, value, subscribers, propKey, store, held, calls, ops,
                   last, world, asyncVars>>

\* the continuation of a fulfilled read: super.set(value), then
\* _pendingPromises.delete(this._key)
RestoreContinuation(p) ==
    /\ phase[p] = "readFulfilled"
    /\ \E h0 \in {Collect(heap, Roots(value, held, <<>>))} :
           /\ Cardinality(FreeRefs(h0)) >= 2 + Len(subscribers[p])
           /\ \E r \in {ObsSet(value[p], subscribers[p],
                              ParsedValue(readVal[p], h0), ParsedHeap(readVal[p], h0))} :
                  Commit([value EXCEPT ![p] = r.value], held, r.calls, r.heap)
    /\ pending' = MapDelete(pending, propKey[p])
    /\ phase' = [phase EXCEPT ![p] = "applied"]
    /\ ops' = <<>>
    /\ UNCHANGED <<subscribers, propKey, store, last, world,
                   astore, readVal, registry, prom, settle, inflight, raced, active>>

\* the call record of an allSettled call over the Map m, snapshot keys ks
NewCall(m, ks) ==
    [st |-> "waiting", keys |-> ks, proms |-> MapValues(m), result |-> EmptyMap,
     snap |-> m, before |-> {p \in Props : phase[p] \in AsyncPhases},
     late |-> {}, gone |-> {}]

\* StatefulProperty.allSettled
StatefulAllSettled ==
    /\ world = "restore"
    /\ settle["SP"].st # "waiting"
    /\ settle' = [settle EXCEPT !["SP"] = NewCall(pending, ObjectKeys(pending))]
    /\ UNCHANGED <<propVars, last, world, inflight, raced, active, astore, readVal, pending, registry, prom>>

\* StateManager.allSettled
ManagerAllSettled ==
    /\ settle["SM"].st # "waiting"
    /\ settle' = [settle EXCEPT !["SM"] = NewCall(registry, MapKeys(registry))]
    /\ UNCHANGED <<propVars, last, world, inflight, raced, active, astore, readVal, pending, registry, prom>>

\* the keys the registry holds now and the snapshot did not, with a settled
\* future; the keys of the snapshot the registry no longer holds
LateSettled(snap) ==
    {registry[j].key : j \in {i \in 1..Len(registry) :
        /\ ~ MapHas(snap, registry[i].key)
        /\ prom[registry[i].prom.id].st # "pending"}}
Dequeued(snap) == {snap[j].key : j \in {i \in 1..Len(snap) : ~ MapHas(registry, snap[i].key)}}

\* the .then callback of Promise.allSettled: build the result Map, resolve
AllSettledResolve(c) ==
    /\ settle[c].st = "waiting"
    /\ AllDone(settle[c].proms)
    /\ settle' = [settle EXCEPT ![c].st = "resolved",
                                ![c].result = BuildResult(settle[c].keys,
                                                  settle[c].proms, 1, EmptyMap),
                                ![c].late = IF c = "SM" THEN LateSettled(settle[c].snap) ELSE {},
                                ![c].gone = IF c = "SM" THEN Dequeued(settle[c].snap) ELSE {}]
    /\ UNCHANGED <<propVars, last, world, inflight, raced, active, astore, readVal, pending, registry, prom>>

\* StateManager.enqueue(key, value)
Enqueue(k, q) ==
    /\ world = "registry"
    /\ registry' = MapSet(registry, k, AppPromise(q))
    /\ UNCHANGED <<propVars, last, world, inflight, raced, active, astore, readVal, pending, prom, settle>>

\* StateManager.dequeue(key)
Dequeue(k) ==
    /\ world = "registry"
    /\ registry' = MapDelete(registry, k)
    /\ UNCHANGED <<propVars, last, world, inflight, raced, active, astore, readVal, pending, prom, settle>>

\* a future of the application is fulfilled, or rejected
PromFulfil(q, v) ==
    /\ world = "registry"
    /\ prom[q].st = "pending"
    /\ prom' = [prom EXCEPT ![q] = [st |-> "fulfilled", val |-> v]]
    /\ UNCHANGED <<propVars, last, world, inflight, raced, active, astore, readVal, pending, registry, settle>>

PromReject(q) ==
    /\ world = "registry"
    /\ prom[q].st = "pending"
    /\ prom' = [prom EXCEPT ![q] = [st |-> "rejected", val |-> Undef]]
    /\ UNCHANGED <<propVars, last, world, inflight, raced, active, astore, readVal, pending, registry, settle>>

NextAsync ==
    \/ \E p \in Props, k \in Keys : NewStatefulAsync(p, k)
    \/ \E p \in Props : ReadFulfil(p)
    \/ \E p \in Props : ReadReject(p)
    \/ \E p \in Props : RestoreContinuation(p)
    \/ StatefulAllSettled
    \/ ManagerAllSettled
    \/ \E c \in CallIds : AllSettledResolve(c)
    \/ \E k \in Keys, q \in Proms : Enqueue(k, q)
    \/ \E k \in Keys : Dequeue(k)
    \/ \E q \in Proms, v \in {Prim(1), Prim(2)} : PromFulfil(q, v)
    \/ \E q \in Proms : PromReject(q)

SpecAsync == InitAsync /\ [][NextAsync]_vars

\* the event loop runs every queued continuation
LiveSpecAsync ==
    /\ SpecAsync
    /\ \A p \in Props : WF_vars(RestoreContinuation(p))
    /\ \A c \in CallIds : WF_vars(AllSettledResolve(c))


\* ------------------------------------- set racing an asynchronous restore
\* one property over a reliable asynchronous storage that may hold an
\* earlier value; the application may call set while the restore is pending
InitRace ==
    /\ InitCommon
    /\ world = "race"
    /\ store = [k \in Keys |-> Undef]
    /\ astore \in [Keys -> {Undef, Prim(1), Json(2)}]

\* the property the race scenario constructs
RaceProps == {1}

\* a storage that loses the writes it is handed
AsyncIssueLost(q, w) == q

\* storage.set / storage.remove of an asynchronous storage: the write joins
\* the operations the backend has still to apply and a future is returned
AsyncIssue(q, w) == q \o w

\* StatefulProperty.set(valueOrFunction) over an asynchronous storage:
\* super.set, super.get, then the write is issued and not awaited
StatefulSetAsync(p, a) ==
    /\ world = "race"
    /\ phase[p] \in {"reading", "readFulfilled", "applied"}
    /\ Len(inflight) < MaxWrites
    /\ Cardinality(FreeRefs(SetHeap)) >= 2 + Len(subscribers[p])
    /\ IF isFunction(a) /\ UpdaterThrows(a, value[p])
       THEN SetThrows(p, a)
       ELSE \E r \in {ObsSet(value[p], subscribers[p], SetArgValue(a), SetArgHeap(a))} :
            /\ Commit([value EXCEPT ![p] = r.value], held, r.calls, r.heap)
            /\ ops' = WriteThrough(propKey[p], r.value, r.heap)
            /\ inflight' = AsyncIssue(inflight, ops')
            /\ raced' = IF phase[p] = "applied" THEN raced ELSE raced \cup {p}
            /\ last' = [op |-> "set", p |-> p, arg |-> a, ok |-> TRUE]
            /\ UNCHANGED <<phase, subscribers, propKey, store, world, active,
                           astore, readVal, pending, registry, prom, settle>>

\* the reliable backend applies the oldest write it was handed
StorageApply ==
    /\ world \in {"race", "decoasync"}
    /\ inflight # <<>>
    /\ astore' = ApplyOps(astore, <<Head(inflight)>>)
    /\ inflight' = Tail(inflight)
    /\ UNCHANGED <<propVars, last, world, readVal, pending, registry, prom,
                   settle, raced, active>>

NextRace ==
    \/ \E p \in RaceProps, k \in Keys : NewStatefulAsync(p, k)
    \/ \E p \in Props : ReadFulfil(p)
    \/ \E p \in Props : RestoreContinuation(p)
    \/ \E p \in Props, a \in SetArgs : StatefulSetAsync(p, a)
    \/ \E p \in Props : Subscribe(p, "B")
    \/ StorageApply

SpecRace == InitRace /\ [][NextRace]_vars


\* --------------------------------------- properties sharing their storages
\* two properties, each constructed over the synchronous storage or over the
\* asynchronous one, under either key; both storages may hold earlier values
InitShared ==
    /\ InitCommon
    /\ world = "shared"
    /\ store \in [Keys -> {Undef, Prim(1), Json(1)}]
    /\ astore \in [Keys -> {Undef, Json(2)}]

\* the arguments of set in this scenario: those of SetArgs and Infinity
SharedArgs == SetArgs \cup {Inf}

NextShared ==
    \/ \E p \in Props, k \in Keys : NewStatefulSync(p, k)
    \/ \E p \in Props, k \in Keys : NewStatefulAsync(p, k)
    \/ \E p \in Props : ReadFulfil(p)
    \/ \E p \in Props : RestoreContinuation(p)
    \/ \E p \in Props, a \in SharedArgs : StatefulSet(p, a)

SpecShared == InitShared /\ [][NextShared]_vars


\* ------------------------------------------ handlers that write their argument
\* one observable property whose subscribers may write to what they receive
InitNotify ==
    /\ InitCommon
    /\ world = "notify"
    /\ store = [k \in Keys |-> Undef]
    /\ astore = [k \in Keys |-> Undef]

NextNotify ==
    \/ \E p \in SyncProps : NewObservable(p)
    \/ \E p \in Props, a \in SetArgs : ObservableSet(p, a)
    \/ \E p \in Props, hd \in Writers \cup Handlers : Subscribe(p, hd)
    \/ \E p \in Props, hd \in Writers \cup Handlers : Unsubscribe(p, hd)

SpecNotify == InitNotify /\ [][NextNotify]_vars


\* ------------------------------------- a synchronous storage that may throw
\* one property over a SyncStorage implementation whose get, set and remove
\* may raise instead of returning
InitFaulty ==
    /\ InitCommon
    /\ world = "faulty"
    /\ store \in [Keys -> {Undef, Prim(1), Json(1)}]
    /\ astore = [k \in Keys |-> Undef]

\* a storage operation that raised
Threw(o) == [op |-> o.op, key |-> o.key, val |-> o.val, threw |-> TRUE]

\* new StatefulProperty({storage, key: k}) when this._storage.get(key) may
\* raise: _initFromStorage and the constructor have no handler, the
\* exception leaves the constructor and no instance results
NewStatefulFaulty(p, k, fails) ==
    IF ~ fails THEN NewStatefulSync(p, k)
    ELSE /\ phase[p] = "none"
         /\ ops' = <<Threw([op |-> "get", key |-> k, val |-> Undef])>>
         /\ last' = [op |-> "new", p |-> p, arg |-> Undef, ok |-> FALSE]
         /\ Commit(value, held, <<>>, heap)
         /\ UNCHANGED <<phase, subscribers, propKey, store, world, asyncVars>>

\* StatefulProperty.set(valueOrFunction) when this._storage.set / remove may
\* raise: super.set has stored the value and notified the subscribers, then
\* the exception of the storage call leaves set
StatefulSetFaulty(p, a, fails) ==
    IF ~ fails THEN StatefulSet(p, a)
    ELSE /\ phase[p] = "sync"
         /\ Cardinality(FreeRefs(SetHeap)) >= 2 + Len(subscribers[p])
         /\ IF isFunction(a) /\ UpdaterThrows(a, value[p])
            THEN SetThrows(p, a)
            ELSE \E r \in {ObsSet(value[p], subscribers[p], SetArgValue(a), SetArgHeap(a))} :
                 /\ Commit([value EXCEPT ![p] = r.value], held, r.calls, r.heap)
                 /\ ops' = <<Threw(WriteThrough(propKey[p], r.value, r.heap)[1])>>
                 /\ last' = [op |-> "set", p |-> p, arg |-> a, ok |-> FALSE]
                 /\ UNCHANGED <<phase, subscribers, propKey, store, world, asyncVars>>

NextFaulty ==
    \/ \E p \in SyncProps, k \in Keys, fails \in BOOLEAN : NewStatefulFaulty(p, k, fails)
    \/ \E p \in Props, a \in SetArgs, fails \in BOOLEAN : StatefulSetFaulty(p, a, fails)

SpecFaulty == InitFaulty /\ [][NextFaulty]_vars


\* ------------------------------------------- the stateExperimental decorator
\* one class property decorated with @state({storage: LocalStorage, key}).
\* value[p] is the propertyValue of the decorator's closure, propKey[p] its key.
InitDeco ==
    /\ InitCommon
    /\ world = "deco"
    /\ store \in [Keys -> {Undef, Prim(1), Json(1)}]
    /\ astore = [k \in Keys |-> Undef]

\* a storeValue without the remove branch
storeValueAlwaysSet(k, x, h) == <<[op |-> "set", key |-> k, val |-> Ser(x, h)]>>

\* storeValue(storage, key, value): remove(key) for null / undefined,
\* set(key, value) otherwise
storeValue(k, x, h) ==
    IF x.t = "undef" \/ x.t = "null"
    THEN <<[op |-> "remove", key |-> k, val |-> Undef]>>
    ELSE <<[op |-> "set", key |-> k, val |-> Ser(x, h)]>>

\* the decorator function over a synchronous storage: propertyValue becomes
\* what storage.get(key) returns, then storeValue(storage, key, propertyValue)
Decorate(p, k) ==
    /\ world = "deco"
    /\ phase[p] = "none"
    /\ \E h0 \in {Collect(heap, Roots(value, held, <<>>))} :
           /\ Cardinality(FreeRefs(h0)) >= 1
           /\ \E pv \in {ParsedValue(store[k], h0)}, h1 \in {ParsedHeap(store[k], h0)} :
                  /\ Commit([value EXCEPT ![p] = pv], held, <<>>, h1)
                  /\ ops' = <<[op |-> "get", key |-> k, val |-> Undef]>>
                                \o storeValue(k, pv, h1)
                  /\ store' = ApplyOps(store, ops')
    /\ phase' = [phase EXCEPT ![p] = "deco"]
    /\ propKey' = [propKey EXCEPT ![p] = k]
    /\ last' = [op |-> "decorate", p |-> p, arg |-> Undef, ok |-> TRUE]
    /\ UNCHANGED <<subscribers, world, asyncVars>>

\* the plain values the application assigns to the decorated property
PlainArgs == {Undef, Null, Prim(1)} \cup {Json(f) : f \in Fields}

\* the set function of the descriptor, for a value that is not an
\* ObservableProperty: propertyValue = value, then storeValue(storage, key,
\* null) when it is not defined and storeValue(storage, key, value) otherwise
DecoratedAssign(p, a) ==
    /\ phase[p] = "deco"
    /\ Cardinality(FreeRefs(SetHeap)) >= 1
    /\ Commit([value EXCEPT ![p] = SetArgValue(a)], held, <<>>, SetArgHeap(a))
    /\ ops' = IF ~ isDefined(SetArgValue(a))
              THEN storeValue(propKey[p], Null, SetArgHeap(a))
              ELSE storeValue(propKey[p], SetArgValue(a), SetArgHeap(a))
    /\ store' = ApplyOps(store, ops')
    /\ last' = [op |-> "assign", p |-> p, arg |-> a, ok |-> TRUE]
    /\ UNCHANGED <<phase, subscribers, propKey, world, asyncVars>>

\* Get(p) is the get function of the descriptor: return propertyValue
NextDeco ==
    \/ \E p \in SyncProps, k \in Keys : Decorate(p, k)
    \/ \E p \in Props, a \in PlainArgs : DecoratedAssign(p, a)
    \/ \E p \in Props : Get(p)

SpecDeco == InitDeco /\ [][NextDeco]_vars


\* ------------------------ the stateExperimental decorator, asynchronous storage
\* one class property decorated with @state({storage, key}) over an
\* asynchronous storage that may hold earlier values.  value[p] is the
\* propertyValue of the decorator's closure.
InitDecoAsync ==
    /\ InitCommon
    /\ world = "decoasync"
    /\ store = [k \in Keys |-> Undef]
    /\ astore \in [Keys -> {Undef, Prim(2), Json(2)}]

\* the decorator function over an asynchronous storage: propertyValue is the
\* initializer (target.value), the read is started and its continuation is
\* enqueued with StateManager under the key
DecorateAsync(p, k, init) ==
    /\ world = "decoasync"
    /\ phase[p] = "none"
    /\ phase' = [phase EXCEPT ![p] = "reading"]
    /\ propKey' = [propKey EXCEPT ![p] = k]
    /\ readVal' = [readVal EXCEPT ![p] = astore[k]]
    /\ registry' = MapSet(registry, k, PropPromise(p))
    /\ ops' = <<[op |-> "get", key |-> k, val |-> Undef]>>
    /\ last' = [op |-> "decorate", p |-> p, arg |-> init, ok |-> TRUE]
    /\ Commit([value EXCEPT ![p] = init], held, <<>>, heap)
    /\ UNCHANGED <<subscribers, store, world, astore, pending, prom, settle,
                   inflight, raced, active>>

\* the set function of the descriptor over an asynchronous storage:
\* propertyValue = value, then storeValue, whose write is not awaited
DecoratedAssignAsync(p, a) ==
    /\ world = "decoasync"
    /\ phase[p] \in {"reading", "readFulfilled", "applied"}
    /\ Len(inflight) < MaxWrites
    /\ Cardinality(FreeRefs(SetHeap)) >= 1
    /\ Commit([value EXCEPT ![p] = SetArgValue(a)], held, <<>>, SetArgHeap(a))
    /\ ops' = IF ~ isDefined(SetArgValue(a))
              THEN storeValue(propKey[p], Null, SetArgHeap(a))
              ELSE storeValue(propKey[p], SetArgValue(a), SetArgHeap(a))
    /\ inflight' = AsyncIssue(inflight, ops')
    /\ raced' = IF phase[p] = "applied" THEN raced ELSE raced \cup {p}
    /\ last' = [op |-> "assign", p |-> p, arg |-> a, ok |-> TRUE]
    /\ UNCHANGED <<phase, subscribers, propKey, store, world, astore, readVal,
                   pending, registry, prom, settle, active>>

\* the continuation of the read: when propertyValue is not defined it
\* becomes the value read (isDefined(storageValue) tests the future and
\* holds always); then storeValue(storage, key, propertyValue) and
\* StateManager.dequeue(key)
DecoContinuation(p) ==
    /\ world = "decoasync"
    /\ phase[p] = "readFulfilled"
    /\ Len(inflight) < MaxWrites
    /\ \E h0 \in {Collect(heap, Roots(value, held, <<>>))} :
           /\ Cardinality(FreeRefs(h0)) >= 1
           /\ \E pv \in {IF isDefined(value[p]) THEN value[p]
                          ELSE ParsedValue(readVal[p], h0)},
                 h1 \in {IF isDefined(value[p]) THEN h0
                          ELSE ParsedHeap(readVal[p], h0)} :
                  /\ Commit([value EXCEPT ![p] = pv], held, <<>>, h1)
                  /\ ops' = storeValue(propKey[p], pv, h1)
    /\ inflight' = AsyncIssue(inflight, ops')
    /\ registry' = MapDelete(registry, propKey[p])
    /\ phase' = [phase EXCEPT ![p] = "applied"]
    /\ UNCHANGED <<subscribers, propKey, store, last, world, astore, readVal,
                   pending, prom, settle, raced, active>>

NextDecoAsync ==
    \/ \E p \in SyncProps, k \in Keys, init \in {Undef, Prim(1)} : DecorateAsync(p, k, init)
    \/ \E p \in Props : ReadFulfil(p)
    \/ \E p \in Props : DecoContinuation(p)
    \/ \E p \in Props, a \in PlainArgs : DecoratedAssignAsync(p, a)
    \/ StorageApply

SpecDecoAsync == InitDecoAsync /\ [][NextDecoAsync]_vars


\* ------------------------------------------- handlers that call set themselves
\* one property, observable or stateful over the synchronous storage, with
\* a subscriber of the form
\*     v => { if (v !== 'done') property.set('done') }
InitReentry ==
    /\ InitCommon
    /\ world = "reentry"
    /\ store = [k \in Keys |-> Undef]
    /\ astore = [k \in Keys |-> Undef]

\* the value the setting handler sets, and does not react to
StopValue == Prim(2)

\* the notification loop of a set call when handlers may call set: the call
\* of a setting handler runs a whole inner set (store, notify every
\* subscriber) before the loop of the outer set goes on to its next
\* subscriber.  val is this._value, entered the number of inner sets begun.
RECURSIVE NotifyReentrant(_, _, _, _, _)
NotifyReentrant(rest, subs, x, val, h) ==
    IF rest = <<>>
    THEN [value |-> val, heap |-> h, calls |-> <<>>, entered |-> 0]
    ELSE LET c       == DeepCopy(x, h)
             h1      == HandlerRun(Head(rest), c.val, c.heap)
             reenter == Head(rest) \in Setters /\ c.val # StopValue
             inner   == IF reenter THEN ObsSet(val, subs, StopValue, h1)
                        ELSE [value |-> val, heap |-> h1, calls |-> <<>>]
             more    == NotifyReentrant(Tail(rest), subs, x, inner.value, inner.heap)
         IN  [value   |-> more.value,
              heap    |-> more.heap,
              calls   |-> <<[h |-> Head(rest), arg |-> c.val]>>
                            \o inner.calls \o more.calls,
              entered |-> (IF reenter THEN 1 ELSE 0) + more.entered]

\* ObservableProperty.set(valueOrFunction) with such subscribers
ReentrantSet(p, a) ==
    /\ world = "reentry"
    /\ phase[p] = "obs"
    /\ Cardinality(FreeRefs(SetHeap)) >= 2 + Len(subscribers[p])
    /\ IF isFunction(a) /\ UpdaterThrows(a, value[p])
       THEN /\ last' = [op |-> "set", p |-> p, arg |-> a, ok |-> FALSE]
            /\ Commit(value, held, <<>>, heap)
            /\ active' = IF active > 1 THEN active ELSE 1
       ELSE \E s \in {ObsSet(value[p], <<>>, SetArgValue(a), SetArgHeap(a))} :
            \E r \in {NotifyReentrant(subscribers[p], subscribers[p],
                                      NotifiedValue(SetArgValue(a), s.value),
                                      s.value, s.heap)} :
                /\ Commit([value EXCEPT ![p] = r.value], held, r.calls, r.heap)
                /\ last' = [op |-> "set", p |-> p, arg |-> a, ok |-> TRUE]
                /\ active' = IF r.entered > 0 /\ active < 2 THEN 2
                             ELSE IF active > 1 THEN active ELSE 1
    /\ ops' = <<>>
    /\ UNCHANGED <<phase, subscribers, propKey, store, world, astore, readVal,
                   pending, registry, prom, settle, inflight, raced>>

\* an outer call that writes its own argument
WrittenValueArgument(valueOrFunction, current) == valueOrFunction

\* const newValue = super.get(): what StatefulProperty.set writes is the
\* value the property holds when super.set has returned
WrittenValue(valueOrFunction, current) == current

\* StatefulProperty.set(valueOrFunction) with such subscribers.  The set a
\* handler calls is StatefulProperty.set too: each inner call issues its
\* write of StopValue during the pass, the outer call issues its write
\* after the pass.
ReentrantStatefulSet(p, a) ==
    /\ world = "reentry"
    /\ phase[p] = "sync"
    /\ Cardinality(FreeRefs(SetHeap)) >= 2 + Len(subscribers[p])
    /\ IF isFunction(a) /\ UpdaterThrows(a, value[p])
       THEN /\ last' = [op |-> "set", p |-> p, arg |-> a, ok |-> FALSE]
            /\ Commit(value, held, <<>>, heap)
            /\ active' = IF active > 1 THEN active ELSE 1
            /\ ops' = <<>>
            /\ store' = store
       ELSE \E s \in {ObsSet(value[p], <<>>, SetArgValue(a), SetArgHeap(a))} :
            \E r \in {NotifyReentrant(subscribers[p], subscribers[p],
                                      NotifiedValue(SetArgValue(a), s.value),
                                      s.value, s.heap)} :
                /\ Commit([value EXCEPT ![p] = r.value], held, r.calls, r.heap)
                /\ last' = [op |-> "set", p |-> p, arg |-> a, ok |-> TRUE]
                /\ active' = IF r.entered > 0 /\ active < 2 THEN 2
                             ELSE IF active > 1 THEN active ELSE 1
                /\ ops' = [i \in 1..r.entered |->
                              WriteThrough(propKey[p], StopValue, r.heap)[1]]
                          \o WriteThrough(propKey[p],
                                 WrittenValue(SetArgValue(a), r.value), r.heap)
                /\ store' = ApplyOps(store, ops')
    /\ UNCHANGED <<phase, subscribers, propKey, world, astore, readVal,
                   pending, registry, prom, settle, inflight, raced>>

NextReentry ==
    \/ \E p \in SyncProps : NewObservable(p)
    \/ \E p \in SyncProps, k \in Keys : NewStatefulSync(p, k)
    \/ \E p \in Props, a \in SetArgs : ReentrantSet(p, a)
    \/ \E p \in Props, a \in SetArgs : ReentrantStatefulSet(p, a)
    \/ \E p \in Props, hd \in Setters \cup {"B"} : Subscribe(p, hd)
    \/ \E p \in Props, hd \in Setters \cup {"B"} : Unsubscribe(p, hd)

SpecReentry == InitReentry /\ [][NextReentry]_vars


\* ------------------------------------- updaters that return, and that raise
\* one property, observable or stateful over the synchronous storage, set
\* with values and with updaters of every kind
InitUpdater ==
    /\ InitCommon
    /\ world = "updater"
    /\ store \in [Keys -> {Undef, Prim(1), Json(1)}]
    /\ astore = [k \in Keys |-> Undef]

\* the arguments of set in this scenario
UpdaterArgs ==
    {Undef, Null, Prim(1), FnReturn}
        \cup {Json(f) : f \in Fields}
        \cup {Fn(k) : k \in 0..MaxField}
        \cup {FnThrow(k) : k \in Fields}

NextUpdater ==
    \/ \E p \in SyncProps : NewObservable(p)
    \/ \E p \in SyncProps, k \in Keys : NewStatefulSync(p, k)
    \/ \E p \in Props, a \in UpdaterArgs : ObservableSet(p, a)
    \/ \E p \in Props, a \in UpdaterArgs : StatefulSet(p, a)
    \/ \E p \in Props : Get(p)
    \/ \E p \in Props : Subscribe(p, "B")

SpecUpdater == InitUpdater /\ [][NextUpdater]_vars


\* ------------------------------------------------- handlers that raise
\* one stateful property over the synchronous storage whose subscribers may
\* raise an exception
InitThrow ==
    /\ InitCommon
    /\ world = "throw"
    /\ store \in [Keys -> {Undef, Prim(1), Json(1)}]
    /\ astore = [k \in Keys |-> Undef]

\* a loop that invokes every subscriber before the exception leaves it
NotifyThrowingRunsAll(subs, x, h) ==
    [heap  |-> h,
     calls |-> [i \in 1..Len(subs) |-> [h |-> subs[i], arg |-> x]],
     threw |-> \E i \in 1..Len(subs) : subs[i] \in Throwers]

\* for (const subscriber of this._subscribers) subscriber(deepCopy(x)) when
\* a handler may raise: the loop has no handler for exceptions, so the
\* first raising subscriber ends it
RECURSIVE NotifyThrowing(_, _, _)
NotifyThrowing(subs, x, h) ==
    IF subs = <<>> THEN [heap |-> h, calls |-> <<>>, threw |-> FALSE]
    ELSE LET c == DeepCopy(x, h)
         IN  IF Head(subs) \in Throwers
             THEN [heap  |-> c.heap,
                   calls |-> <<[h |-> Head(subs), arg |-> c.val]>>,
                   threw |-> TRUE]
             ELSE LET rest == NotifyThrowing(Tail(subs), x,
                                  HandlerRun(Head(subs), c.val, c.heap))
                  IN  [heap  |-> rest.heap,
                       calls |-> <<[h |-> Head(subs), arg |-> c.val]>> \o rest.calls,
                       threw |-> rest.threw]

\* StatefulProperty.set(valueOrFunction) with such subscribers: super.set
\* stores the value and runs the loop; an exception of a subscriber leaves
\* super.set and set, and the lines that write to the storage are not
\* reached
ThrowingStatefulSet(p, a) ==
    /\ world = "throw"
    /\ phase[p] = "sync"
    /\ Cardinality(FreeRefs(SetHeap)) >= 2 + Len(subscribers[p])
    /\ IF isFunction(a) /\ UpdaterThrows(a, value[p])
       THEN SetThrows(p, a)
       ELSE \E s \in {ObsSet(value[p], <<>>, SetArgValue(a), SetArgHeap(a))} :
            \E r \in {NotifyThrowing(subscribers[p],
                                     NotifiedValue(SetArgValue(a), s.value), s.heap)} :
                /\ Commit([value EXCEPT ![p] = s.value], held, r.calls, r.heap)
                /\ ops' = IF r.threw THEN <<>>
                          ELSE WriteThrough(propKey[p], s.value, r.heap)
                /\ store' = ApplyOps(store, ops')
                /\ last' = [op |-> "set", p |-> p, arg |-> a, ok |-> ~ r.threw]
                /\ UNCHANGED <<phase, subscribers, propKey, world, asyncVars>>

NextThrow ==
    \/ \E p \in SyncProps, k \in Keys : NewStatefulSync(p, k)
    \/ \E p \in Props, a \in SetArgs : ThrowingStatefulSet(p, a)
    \/ \E p \in Props, hd \in Throwers \cup Handlers : Subscribe(p, hd)
    \/ \E p \in Props, hd \in Throwers \cup Handlers : Unsubscribe(p, hd)

SpecThrow == InitThrow /\ [][NextThrow]_vars


\* ------------------------- handlers that subscribe and unsubscribe in a pass
\* one observable property holding primitives, whose subscribers may call
\* subscribe or unsubscribe on it from inside the notification loop
InitRelist ==
    /\ InitCommon
    /\ world = "relist"
    /\ store = [k \in Keys |-> Undef]
    /\ astore = [k \in Keys |-> Undef]

\* the handler an attaching handler subscribes
AttachTarget(hd) == IF hd = "S" THEN "B" ELSE hd

\* the arguments of set in this scenario
RelistArgs == {Undef, Prim(1)}

\* the longest list a finished pass may leave behind
ListCap == SubsBound + 1

\* A pass over n subscribers that ends makes at most 2n calls: only the
\* handlers listed at its start can attach or detach, each attaches one
\* handler, and an attached SS reached by the loop makes it endless.
PassFuel(n) == 2 * n

\* a loop over a copy of the list taken when the pass starts, which leaves
\* the list as it is
NotifyRelistSnapshot(arr, cur, same, i, x, fuel) ==
    [subs  |-> cur,
     calls |-> [j \in 1..Len(arr) |-> [h |-> arr[j], arg |-> x]],
     done  |-> TRUE]

\* for (const subscriber of this._subscribers) subscriber(deepCopy(x)) when
\* handlers change the list.  arr is the array the iterator walks, cur is
\* this._subscribers, same tells whether they are one array: push extends
\* the array in place, so the iterator reaches the pushed handler while
\* same holds; filter makes this._subscribers a new array and the iterator
\* stays on the old one.  done is FALSE when calls are left after fuel calls.
RECURSIVE NotifyRelist(_, _, _, _, _, _)
NotifyRelist(arr, cur, same, i, x, fuel) ==
    IF i > Len(arr) THEN [subs |-> cur, calls |-> <<>>, done |-> TRUE]
    ELSE IF fuel = 0 THEN [subs |-> cur, calls |-> <<>>, done |-> FALSE]
    ELSE LET hd    == arr[i]
             cur1  == IF hd \in Detachers THEN Without(cur, "B")
                      ELSE IF hd \in Attachers THEN Append(cur, AttachTarget(hd))
                      ELSE cur
             same1 == same /\ hd \notin Detachers
             arr1  == IF same1 THEN cur1 ELSE arr
             rest  == NotifyRelist(arr1, cur1, same1, i + 1, x, fuel - 1)
         IN  [subs  |-> rest.subs,
              calls |-> <<[h |-> hd, arg |-> DeepCopy(x, heap).val]>> \o rest.calls,
              done  |-> rest.done]

\* ObservableProperty.set(value) with such subscribers.  A pass that does
\* not end keeps the caller inside set: the instance is "hung" and nothing
\* further happens.
RelistSet(p, a) ==
    /\ world = "relist"
    /\ phase[p] = "obs"
    /\ \E s \in {ObsSet(value[p], <<>>, a, heap)} :
       \E r \in {NotifyRelist(subscribers[p], subscribers[p], TRUE, 1,
                               NotifiedValue(a, s.value),
                               PassFuel(Len(subscribers[p])))} :
           /\ r.done => Len(r.subs) <= ListCap
           /\ Commit([value EXCEPT ![p] = s.value], held, r.calls, s.heap)
           /\ subscribers' = [subscribers EXCEPT ![p] = r.subs]
           /\ phase' = [phase EXCEPT ![p] = IF r.done THEN "obs" ELSE "hung"]
           /\ last' = [op |-> "set", p |-> p, arg |-> a, ok |-> r.done]
    /\ ops' = <<>>
    /\ UNCHANGED <<propKey, store, world, asyncVars>>

NextRelist ==
    \/ \E p \in SyncProps : NewObservable(p)
    \/ \E p \in Props, a \in RelistArgs : RelistSet(p, a)
    \/ \E p \in Props, hd \in Detachers \cup Attachers \cup {"B"} : Subscribe(p, hd)
    \/ \E p \in Props, hd \in Detachers \cup Attachers \cup {"B"} : Unsubscribe(p, hd)

SpecRelist == InitRelist /\ [][NextRelist]_vars


\* ================================================================== claims
\* the keys of a Map snapshot
SnapKeys(m) == {m[i].key : i \in 1..Len(m)}

\* a restore read that was started and has not settled: the read is pending,
\* or fulfilled with its continuation still queued
RestorePending(p) == phase[p] \in {"reading", "readFulfilled"}

\* C1: mutating the object get() returned does not change what a following
\* get() returns, for any property.
C1_CopyIndependence ==
    [][last'.op = "mutate" => \A p \in Props : GetView(p)' = GetView(p)]_vars

\* C2: after a set call that returned, every subscriber of the property was
\* invoked, in order, with a copy of the new current value (what get() now
\* returns), for a direct value and for an updater alike.
C2_SubscribersGetNewValue ==
    (last.op = "set" /\ last.ok) =>
        /\ Len(calls) = Len(subscribers[last.p])
        /\ \A i \in 1..Len(calls) :
              /\ calls[i].h = subscribers[last.p][i]
              /\ Deref(calls[i].arg, heap) = GetView(last.p)
              /\ calls[i].arg.t = "obj" => calls[i].arg # value[last.p]

\* C3: a StatefulProperty.set call that returned issued exactly one storage
\* operation, on the property's key: remove when the new value is null or
\* undefined, otherwise set with the new in-memory value; the synchronous
\* storage then has no entry, respectively holds that value, under the key.
C3_WriteThrough ==
    (last.op = "set" /\ last.ok /\ phase[last.p] = "sync") =>
        /\ Len(ops) = 1
        /\ ops[1].key = propKey[last.p]
        /\ IF value[last.p].t \in {"undef", "null"}
           THEN ops[1].op = "remove" /\ store[propKey[last.p]] = Undef
           ELSE /\ ops[1].op = "set"
                /\ ops[1].val = GetView(last.p)
                /\ store[propKey[last.p]] = GetView(last.p)

\* C3 witness: an updater has rewritten the object of a persisted property
\* and the storage holds the rewritten object.
C3_Witness ==
    /\ last.op = "set" /\ last.ok /\ phase[last.p] = "sync"
    /\ last.arg = Fn(2)
    /\ ops = <<[op |-> "set", key |-> propKey[last.p], val |-> Json(2)]>>
    /\ store[propKey[last.p]] = Json(2)

DistinctKeys(S) == \A p \in S, q \in S : p # q => propKey[p] # propKey[q]

\* C4: when the future of StatefulProperty.allSettled has resolved, and the
\* properties constructed over asynchronous storage before the call have
\* pairwise distinct keys, each of their restore reads has settled and, when
\* it delivered a value, that value has been applied: get() returns it.  (A
\* rejected read delivers no value; it has settled.)
C4_AllSettledAfterRestore ==
    (settle["SP"].st = "resolved" /\ DistinctKeys(settle["SP"].before)) =>
        \A p \in settle["SP"].before :
            /\ phase[p] \in {"applied", "failed"}
            /\ phase[p] = "applied" => GetView(p) = readVal[p]

\* C4 witness: the call was made while both restores were pending under
\* distinct keys, and has resolved with both values applied.
C4_Witness ==
    /\ settle["SP"].st = "resolved"
    /\ settle["SP"].before = Props
    /\ Len(settle["SP"].proms) = 2
    /\ DistinctKeys(Props)
    /\ \A p \in Props : phase[p] = "applied"
    /\ GetView(1) = Json(2)
    /\ GetView(2) = Prim(1)

\* C5: when the future of StateManager.allSettled has resolved, no
\* StatefulProperty constructed over asynchronous storage before the call
\* still has its restore pending.
C5_ManagerWaitsForStatefulProperties ==
    settle["SM"].st = "resolved" =>
        \A p \in settle["SM"].before : ~ RestorePending(p)

\* C6: a key is in the pending-operations map if and only if a restore read
\* started under that key has not yet settled.
C6_PendingIffUnsettled ==
    \A k \in Keys :
        MapHas(pending, k) <=> \E p \in Props : propKey[p] = k /\ RestorePending(p)

\* C7: once a rejected restore read has settled, and no other read under the
\* same key is outstanding, the key is no longer in the pending-operations map.
C7_RejectedReadDeregisters ==
    \A p \in Props :
        (/\ phase[p] = "failed"
         /\ ~ \E q \in Props \ {p} : propKey[q] = propKey[p] /\ RestorePending(q))
        => ~ MapHas(pending, propKey[p])

\* the read behind a snapshotted future has settled, fulfilled or rejected
ReadSettled(pr) ==
    IF pr.kind = "prop" THEN phase[pr.id] \in {"readFulfilled", "applied", "failed"}
    ELSE prom[pr.id].st \in {"fulfilled", "rejected"}

\* C8: an allSettled future never rejects, and once every read of its
\* snapshot has settled, fulfilled or rejected, it eventually resolves.
C8_AllSettledResolves ==
    \A c \in CallIds :
        /\ [](settle[c].st # "rejected")
        /\ (/\ settle[c].st = "waiting"
            /\ \A i \in 1..Len(settle[c].proms) : ReadSettled(settle[c].proms[i]))
           ~> (settle[c].st = "resolved")

\* C8 witness: a call whose snapshot holds a rejected future has resolved.
C8_Witness ==
    \E c \in CallIds :
        /\ settle[c].st = "resolved"
        /\ \E i \in 1..Len(settle[c].proms) :
              IF settle[c].proms[i].kind = "prop"
              THEN phase[settle[c].proms[i].id] = "failed"
              ELSE prom[settle[c].proms[i].id].st = "rejected"

\* the value a future of the application was fulfilled with, undefined when
\* it was rejected
FulfilledValue(pr) ==
    IF prom[pr.id].st = "fulfilled" THEN prom[pr.id].val ELSE Undef

\* C9: StateManager.allSettled resolves to a Map whose keys are exactly the
\* keys registered at the call, each mapped to the fulfilled value of the
\* future registered under it at the call (undefined for a rejected one).
C9_ManagerResult ==
    settle["SM"].st = "resolved" =>
        /\ DOMAIN settle["SM"].result = SnapKeys(settle["SM"].snap)
        /\ \A i \in 1..Len(settle["SM"].snap) :
              settle["SM"].result[settle["SM"].snap[i].key]
                  = FulfilledValue(settle["SM"].snap[i].prom)

\* C9 witness: the call snapshotted two keys, one future was fulfilled and
\* one rejected, and the registry has changed since the call.
C9_Witness ==
    /\ settle["SM"].st = "resolved"
    /\ Len(settle["SM"].snap) = 2
    /\ registry # settle["SM"].snap
    /\ \E i \in 1..2 : prom[settle["SM"].snap[i].prom.id].st = "rejected"
    /\ \E i \in 1..2 : prom[settle["SM"].snap[i].prom.id].st = "fulfilled"

\* C10: StatefulProperty.allSettled resolves to a Map with one entry per key
\* that was pending at the call, mapping the key to the value read for it.
C10_StatefulResult ==
    settle["SP"].st = "resolved" =>
        /\ DOMAIN settle["SP"].result = SnapKeys(settle["SP"].snap)
        /\ \A i \in 1..Len(settle["SP"].snap) :
              phase[settle["SP"].snap[i].prom.id] = "applied" =>
                  settle["SP"].result[settle["SP"].snap[i].key]
                      = readVal[settle["SP"].snap[i].prom.id]

\* C11: StateManager.allSettled works on the snapshot taken at the call.  A
\* call whose snapshotted futures have all settled can resolve whatever was
\* enqueued since; the resolved Map has no entry for a key enqueued after the
\* call, keeps the entry of a snapshotted key that was dequeued since, and
\* maps a key to the outcome of the future it held at the call even when
\* another future was enqueued under it since.
C11_SnapshotAtCall ==
    /\ (/\ settle["SM"].st = "waiting"
        /\ \A i \in 1..Len(settle["SM"].snap) :
               prom[settle["SM"].snap[i].prom.id].st # "pending")
       => ENABLED AllSettledResolve("SM")
    /\ settle["SM"].st = "resolved" =>
        \A k \in Keys :
            IF \E i \in 1..Len(settle["SM"].snap) : settle["SM"].snap[i].key = k
            THEN /\ k \in DOMAIN settle["SM"].result
                 /\ \A i \in 1..Len(settle["SM"].snap) :
                        settle["SM"].snap[i].key = k =>
                            settle["SM"].result[k]
                                = FulfilledValue(settle["SM"].snap[i].prom)
            ELSE k \notin DOMAIN settle["SM"].result

\* C11 witness: the call snapshotted k1; before it resolved k1 was dequeued
\* and another future was enqueued under k2 and fulfilled; the result has
\* the entry of k1 and none for k2.
C11_Witness ==
    /\ settle["SM"].st = "resolved"
    /\ settle["SM"].snap = <<[key |-> "k1", prom |-> AppPromise(1)]>>
    /\ settle["SM"].late = {"k2"}
    /\ settle["SM"].gone = {"k1"}
    /\ DOMAIN settle["SM"].result = {"k1"}

\* the futures a Map holds under a key, and the number of its entries for it
EntriesOf(m, k) == {m[i].prom : i \in {j \in 1..Len(m) : m[j].key = k}}
CountOf(m, k) == Cardinality({j \in 1..Len(m) : m[j].key = k})

\* C12: StateManager.enqueue(k, future) leaves exactly one entry for k, the
\* given future, whatever k held before; StateManager.dequeue(k) leaves no
\* entry for k and changes nothing when there was none; both leave the
\* entry of every other key as it was.
C12_EnqueueDequeueFrame ==
    [][\A k \in Keys :
        /\ \A q \in Proms :
              Enqueue(k, q) =>
                  /\ EntriesOf(registry', k) = {AppPromise(q)}
                  /\ CountOf(registry', k) = 1
                  /\ \A k2 \in Keys \ {k} :
                        /\ EntriesOf(registry', k2) = EntriesOf(registry, k2)
                        /\ CountOf(registry', k2) = CountOf(registry, k2)
        /\ Dequeue(k) =>
              /\ CountOf(registry', k) = 0
              /\ CountOf(registry, k) = 0 => registry' = registry
              /\ \A k2 \in Keys \ {k} :
                    /\ EntriesOf(registry', k2) = EntriesOf(registry, k2)
                    /\ CountOf(registry', k2) = CountOf(registry, k2)]_vars

\* C12 witness: since the allSettled call the future under k1 was replaced
\* by another one and k2 was dequeued.
C12_Witness ==
    /\ settle["SM"].st = "waiting"
    /\ settle["SM"].snap = <<[key |-> "k1", prom |-> AppPromise(1)],
                             [key |-> "k2", prom |-> AppPromise(1)]>>
    /\ registry = <<[key |-> "k1", prom |-> AppPromise(2)]>>

\* C13: the construction of a StatefulProperty over a synchronous storage
\* leaves get() equal to the value the storage holds under the key (unset
\* when it holds none), and leaves the pending-operations map as it was.
C13_SyncRestore ==
    [][\A p \in Props :
        (last'.op = "newSync" /\ last'.p = p) =>
            /\ GetView(p)' = store[propKey'[p]]
            /\ store[propKey'[p]] = Undef => value'[p] = Undef
            /\ pending' = pending
            /\ registry' = registry]_vars

\* C13 witness: a property was just constructed over a storage holding the
\* object {n: 1} under its key, and get() returns {n: 1}.
C13_Witness ==
    /\ last.op = "newSync"
    /\ store[propKey[last.p]] = Json(1)
    /\ value[last.p].t = "obj"
    /\ heap[value[last.p].v] = 1
    /\ pending = <<>>

\* what a caller takes for "no value": null and undefined alike
Absent(x) == IF x.t \in {"undef", "null"} THEN Undef ELSE x

C15_HandlersGetOwnCopies ==
    (last.op = "set" /\ last.ok /\ last.arg.t = "json") =>
        /\ GetView(last.p) = last.arg
        /\ \A i \in 1..Len(calls) :
              /\ calls[i].arg.t = "obj"
              /\ calls[i].arg # value[last.p]
              /\ \A j \in 1..Len(calls) : j # i => calls[j].arg # calls[i].arg
              /\ Deref(calls[i].arg, heap) =
                    IF calls[i].h \in Writers
                    THEN Json((last.arg.v % MaxField) + 1) ELSE last.arg

\* C15 witness: the writing handler and B are subscribed, set({n: 1}) was
\* called, the writing handler holds {n: 2}, B holds {n: 1} and get()
\* returns {n: 1}.
C15_Witness ==
    /\ last.op = "set" /\ last.ok /\ last.arg = Json(1)
    /\ subscribers[last.p] = <<"M", "B">>
    /\ Len(calls) = 2
    /\ Deref(calls[1].arg, heap) = Json(2)
    /\ Deref(calls[2].arg, heap) = Json(1)
    /\ GetView(last.p) = Json(1)

\* C16: subscribe appends the handler to the subscriber list, and a set call
\* that returns has by then invoked the subscribers in the order of the
\* list, once for each occurrence, a handler subscribed twice being invoked
\* twice.
C16_NotificationOrder ==
    [][/\ last'.op = "subscribe" =>
            \E hd \in Handlers :
                subscribers'[last'.p] = Append(subscribers[last'.p], hd)
       /\ (last'.op = "set" /\ last'.ok) =>
            /\ Len(calls') = Len(subscribers[last'.p])
            /\ \A i \in 1..Len(calls') : calls'[i].h = subscribers[last'.p][i]
            /\ \A hd \in Handlers :
                  Cardinality({i \in 1..Len(calls') : calls'[i].h = hd})
                    = Cardinality({i \in 1..Len(subscribers[last'.p]) :
                                      subscribers[last'.p][i] = hd})]_vars

\* C16 witness: B subscribed first and A second, or A twice, and a set call
\* has invoked them in that order.
C16_Witness ==
    /\ last.op = "set" /\ last.ok
    /\ subscribers[last.p] \in {<<"B", "A">>, <<"A", "A">>}
    /\ Len(calls) = 2
    /\ calls[1].h = subscribers[last.p][1]
    /\ calls[2].h = "A"

\* C17: a construction without a storage, with an empty key or, in the
\* version with an encoder parameter, with an encoder lacking parse or
\* stringify, throws: no instance results, no storage operation was issued
\* and the pending-operations map is as it was.
C17_ConstructorRejects ==
    [][\A p \in Props, cfg \in Configs :
        (/\ \/ ~ cfg.storage
            \/ cfg.key = ""
            \/ cfg.variant = "encoder" /\ cfg.encoder \in {"noParse", "noStringify"}
         /\ phase[p] = "none"
         /\ NewStateful(p, cfg))
        => /\ last'.op = "new" /\ ~ last'.ok
           /\ phase'[p] = "none"
           /\ ops' = <<>>
           /\ pending' = pending
           /\ value' = value /\ store' = store]_vars

\* C17 witness: a construction with an encoder that has no parse function
\* has just been rejected; nothing was read and nothing is pending.
C17_Witness ==
    /\ last.op = "new" /\ ~ last.ok
    /\ last.arg.cfg.encoder = "noParse"
    /\ phase[last.p] = "none"
    /\ ops = <<>>
    /\ pending = <<>>

\* C18: a storage operation that raises does not make the constructor or
\* set raise: the construction yields an unset property as if nothing was
\* stored, the set call returns with get() holding the new value and the
\* storage as it was.
C18_StorageFailureContained ==
    \A i \in 1..Len(ops) :
        "threw" \in DOMAIN ops[i] =>
            /\ last.ok
            /\ last.op = "new" => phase[last.p] = "sync" /\ value[last.p] = Undef
            /\ (last.op = "set" /\ ~ isFunction(last.arg)) =>
                  GetView(last.p) = last.arg

\* C19: a set call whose updater raises ends with that exception, has
\* invoked no subscriber and, on a StatefulProperty, has issued no storage
\* operation: the storage is as it was.
C19_UpdaterFailurePropagates ==
    [][\A p \in Props :
        (/\ last'.op = "set" /\ last'.p = p
         /\ last'.arg.t = "fn" /\ last'.arg.v > 0
         /\ value[p].t # "obj")
        => /\ ~ last'.ok
           /\ calls' = <<>>
           /\ ops' = <<>>
           /\ store' = store]_vars

\* C19 witness: a set call on a persisted property with a subscriber has
\* just ended with the exception of its updater.
C19_Witness ==
    /\ last.op = "set" /\ ~ last.ok
    /\ phase[last.p] = "sync"
    /\ subscribers[last.p] # <<>>
    /\ calls = <<>>
    /\ ops = <<>>

\* C20: after set(undefined) on a property, plain or persisted, exists()
\* returns false and get() returns undefined, whatever the property held.
C20_SetUndefinedUnsets ==
    (last.op = "set" /\ last.arg = Undef) =>
        /\ last.ok
        /\ ~ exists(last.p)
        /\ ObsGet(last.p) = Undef

\* C20 witness: the application still holds the object it got from the
\* property, and set(undefined) has unset the property.
C20_Witness ==
    /\ last.op = "set" /\ last.arg = Undef
    /\ held.t = "obj"
    /\ ~ exists(last.p)
    /\ ObsGet(last.p) = Undef

\* C21: a new ObservableProperty is unset; after set(x) for a direct value x
\* that is neither null nor undefined, whatever the property held, get()
\* equals x and exists() is true; and in every state exists() is true
\* exactly when the current value is neither undefined nor null.
C21_SetStateMachine ==
    /\ \A p \in Props : exists(p) <=> value[p].t \notin {"undef", "null"}
    /\ last.op = "newObs" => value[last.p] = Undef /\ ~ exists(last.p)
    /\ (last.op = "set" /\ last.arg.t \in {"prim", "json"}) =>
          /\ last.ok
          /\ GetView(last.p) = last.arg
          /\ exists(last.p)

\* C21 witness: set({n: 2}) on a plain property has replaced the value while
\* the application still holds an object it got from the property before.
C21_Witness ==
    /\ last.op = "set" /\ last.arg = Json(2)
    /\ phase[last.p] = "obs"
    /\ held.t = "obj" /\ held # value[last.p]
    /\ GetView(last.p) = Json(2)
    /\ exists(last.p)

\* C22: when the current value is an object, a set call with an updater that
\* writes draft.n = k makes get() return {n: k}, and a set call with an
\* updater that writes nothing leaves get() returning the object's fields as
\* they were.
C22_UpdaterDraft ==
    [][\A p \in Props :
        (/\ last'.op = "set" /\ last'.p = p
         /\ last'.arg.t = "fn"
         /\ value[p].t = "obj")
        => /\ last'.ok
           /\ GetView(p)' = Json(IF last'.arg.v > 0 THEN last'.arg.v
                                 ELSE heap[value[p].v])]_vars

\* C22 witness: an updater writing draft.n = 2 has run on a plain property
\* and get() returns {n: 2}.
C22_Witness ==
    /\ last.op = "set" /\ last.ok /\ last.arg = Fn(2)
    /\ phase[last.p] = "obs"
    /\ GetView(last.p) = Json(2)

\* C23: unsubscribe(h) returns normally and leaves the subscriber list with
\* no occurrence of h and with the other handlers as they were, in their
\* order; when h was not subscribed the list is unchanged, so a second
\* unsubscribe(h) changes nothing.
C23_UnsubscribeRemovesAll ==
    [][\A p \in Props, hd \in Writers \cup Handlers :
        Unsubscribe(p, hd) =>
            /\ last'.ok
            /\ \A i \in 1..Len(subscribers'[p]) : subscribers'[p][i] # hd
            /\ subscribers'[p] = SelectSeq(subscribers[p], LAMBDA g : g # hd)
            /\ (\A i \in 1..Len(subscribers[p]) : subscribers[p][i] # hd)
                  => subscribers'[p] = subscribers[p]
            /\ \A q \in Props \ {p} : subscribers'[q] = subscribers[q]]_vars

\* C23 witness: an unsubscribe has just left two different handlers in the
\* list, which can hold one more.
C23_Witness ==
    /\ last.op = "unsubscribe"
    /\ subscribers[last.p] = <<"B", "A">>

\* C24: after a plain value v is assigned to a decorated property a read of
\* the property returns v, and the assignment has issued exactly one storage
\* operation, on the decorator's key: set(key, v) when v is neither null nor
\* undefined, remove(key) otherwise.
C24_DecoratedAssign ==
    last.op = "assign" =>
        /\ GetView(last.p) = last.arg
        /\ Len(ops) = 1
        /\ ops[1].key = propKey[last.p]
        /\ IF last.arg.t \in {"undef", "null"}
           THEN ops[1].op = "remove"
           ELSE ops[1].op = "set" /\ ops[1].val = last.arg

\* C24 witness: null was assigned over a stored object: the read returns
\* null, the one operation was remove(key) and the storage has no entry.
C24_Witness ==
    /\ last.op = "assign" /\ last.arg = Null
    /\ GetView(last.p) = Null
    /\ ops = <<[op |-> "remove", key |-> propKey[last.p], val |-> Undef]>>
    /\ store[propKey[last.p]] = Undef
    /\ held.t = "obj"

\* C25: when a StatefulProperty.allSettled call made after every property
\* was constructed over the asynchronous storage has resolved, no restore is
\* still outstanding: each read was applied (or was rejected), also when the
\* properties share a key.
C25_AllSettledSameKey ==
    (settle["SP"].st = "resolved" /\ settle["SP"].before = Props) =>
        \A p \in Props : phase[p] \in {"applied", "failed"}

\* C26: no set call on an instance begins while another set call on it is
\* in progress, also when subscribers call set: at no time are two set calls
\* on one instance in progress at once.
C26_NoNestedSet ==
    active <= 1

\* the storage operation a write-through of the direct value a issues
WriteOf(k, a) ==
    IF a.t \in {"undef", "null"} THEN [op |-> "remove", key |-> k, val |-> Undef]
    ELSE [op |-> "set", key |-> k, val |-> a]

\* C27: when set was called on a property before its restore read delivered
\* the stored value r, the continuation of the read makes get() return r and
\* invokes every subscriber with r, and issues no storage operation: when
\* the set call of a direct value a was the application's last operation,
\* the write of a is still the last operation the storage was handed, or
\* has been applied and is what the storage holds.
C27_RestoreWinsRace ==
    [][\A p \in Props :
        (/\ phase[p] = "readFulfilled" /\ phase'[p] = "applied"
         /\ p \in raced
         /\ readVal[p] # Undef)
        => /\ GetView(p)' = readVal[p]
           /\ Len(calls') = Len(subscribers[p])
           /\ \A i \in 1..Len(calls') :
                 /\ calls'[i].h = subscribers[p][i]
                 /\ Deref(calls'[i].arg, heap') = readVal[p]
           /\ inflight' = inflight /\ astore' = astore /\ ops' = <<>>
           /\ (last.op = "set" /\ last.ok /\ last.p = p /\ last.arg.t # "fn") =>
                 IF inflight' # <<>>
                 THEN inflight'[Len(inflight')] = WriteOf(propKey[p], last.arg)
                 ELSE astore'[propKey[p]] = WriteOf(propKey[p], last.arg).val]_vars

\* C27 witness: set(1) was called while the read of the stored object
\* {n: 2} was outstanding; the restore was then applied: get() returns
\* {n: 2}, the subscriber received {n: 2}, and the write of 1 is the last
\* operation the storage was handed.
C27_Witness ==
    /\ phase[1] = "applied" /\ 1 \in raced
    /\ readVal[1] = Json(2)
    /\ GetView(1) = Json(2)
    /\ Len(calls) = 1 /\ calls[1].h = "B"
    /\ Deref(calls[1].arg, heap) = Json(2)
    /\ last.op = "set" /\ last.arg = Prim(1)
    /\ inflight = <<[op |-> "set", key |-> propKey[1], val |-> Prim(1)]>>

\* C28: when the restore read of a property delivers undefined, nothing
\* being stored, its continuation leaves the value of the property as it
\* was and invokes no subscriber.
C28_EmptyRestoreAppliesNothing ==
    [][\A p \in Props :
        (/\ phase[p] = "readFulfilled" /\ phase'[p] = "applied"
         /\ readVal[p] = Undef)
        => /\ GetView(p)' = GetView(p)
           /\ calls' = <<>>]_vars

\* C29: constructing a StatefulProperty issues the one get(key) and no
\* other storage operation, and neither the synchronous restore in the
\* constructor nor the continuation of the asynchronous read issues a
\* storage operation or changes what a storage holds.
C29_RestoreIssuesNoWrite ==
    [][\A p \in Props :
        /\ (phase[p] = "none" /\ phase'[p] \in {"sync", "reading"})
           => /\ ops' = <<[op |-> "get", key |-> propKey'[p], val |-> Undef]>>
              /\ store' = store /\ astore' = astore /\ inflight' = inflight
        /\ (phase[p] = "readFulfilled" /\ phase'[p] = "applied")
           => /\ ops' = <<>>
              /\ store' = store /\ astore' = astore /\ inflight' = inflight]_vars

\* both kinds of restore have applied a stored value: a property restored in
\* its constructor and a property restored by its continuation hold what
\* their storages held
C29_Witness ==
    /\ phase[1] = "sync" /\ GetView(1) = Json(1) /\ store[propKey[1]] = Json(1)
    /\ phase[2] = "applied" /\ GetView(2) = Json(2)
    /\ astore[propKey[2]] = Json(2)
    /\ ops = <<>>

\* p.set(v) with a value v has just returned and q is constructed over the
\* same synchronous storage under the key of p
SetThenConstruct(p, q) ==
    /\ last.op = "set" /\ last.ok /\ last.p = p /\ ~ isFunction(last.arg)
    /\ phase[p] = "sync"
    /\ phase[q] = "none" /\ phase'[q] = "sync" /\ propKey'[q] = propKey[p]

\* C30: after p.set(v) on a property over the synchronous storage, a
\* property q constructed over the same storage and key reads v back:
\* q.get() equals v for every v that is neither null nor undefined, and
\* q.exists() is false after p.set(null) or p.set(undefined).
C30_SetThenConstructReadsBack ==
    [][\A p, q \in Props :
        SetThenConstruct(p, q)
        => IF isDefined(last.arg) THEN GetView(q)' = last.arg
           ELSE ~ exists(q)']_vars

\* C30, amended: the same for every v that JSON has a text for, that is,
\* whose stored text denotes v again.
C30_SetThenConstructReadsBackJson ==
    [][\A p, q \in Props :
        (SetThenConstruct(p, q) /\ Ser(last.arg, heap) = last.arg)
        => IF isDefined(last.arg) THEN GetView(q)' = last.arg
           ELSE ~ exists(q)']_vars

\* q was constructed right after p.set({n: 2}) over a storage that held
\* another value before, and holds a copy of its own of {n: 2}
C30_Witness ==
    /\ last.op = "newSync" /\ last.p = 2
    /\ phase[1] = "sync" /\ propKey[1] = propKey[2]
    /\ store[propKey[1]] = Json(2)
    /\ GetView(1) = Json(2) /\ GetView(2) = Json(2)
    /\ value[1] # value[2]

\* the handlers of a list
HandlersOf(subs) == {subs[i] : i \in 1..Len(subs)}

\* a set call on p that returned
SetReturned(p) == last'.op = "set" /\ last'.p = p /\ last'.ok

\* C31: a set call during which a subscriber unsubscribes a handler that was
\* not invoked yet returns normally and, unless a later subscriber of the
\* pass subscribes the handler again, leaves it off the list; and no set
\* call invokes a handler that was neither on the list when the call began
\* nor subscribed during the call.
C31_DetachDuringPass ==
    [][\A p \in Props :
        (phase[p] = "obs" /\ last'.op = "set" /\ last'.p = p)
        => /\ \A i \in 1..Len(subscribers[p]) :
                  (/\ subscribers[p][i] \in Detachers
                   /\ \E j \in (i + 1)..Len(subscribers[p]) : subscribers[p][j] = "B"
                   /\ \A j \in 1..Len(subscribers[p]) : subscribers[p][j] \notin Attachers)
                  => last'.ok /\ "B" \notin HandlersOf(subscribers'[p])
           /\ \A i \in 1..Len(calls') :
                  \/ calls'[i].h \in HandlersOf(subscribers[p])
                  \/ \E j \in 1..(i - 1) :
                         /\ calls'[j].h \in Attachers
                         /\ AttachTarget(calls'[j].h) = calls'[i].h]_vars

\* a set call has returned in whose pass U unsubscribed B before B was
\* invoked: B was on the list, since the pass invoked it, and is off it now
C31_Witness ==
    /\ last.op = "set" /\ last.ok
    /\ Len(calls) = 2 /\ calls[1].h = "U" /\ calls[2].h = "B"
    /\ subscribers[1] = <<"U">>

\* C33: every set call returns: no notification pass goes on forever,
\* whatever its subscribers subscribe during the pass.
C33_SetTerminates == \A p \in Props : phase[p] # "hung"

\* C34: a pass walks the list that was current when it began.  Every
\* handler on the list at the start is invoked, in list order, also when an
\* earlier subscriber of the pass unsubscribed it; and a handler subscribed
\* during the pass, no subscriber before the subscribing one having
\* unsubscribed anything in this pass, is invoked later in the same pass.
C34_PassWalksStartList ==
    [][\A p \in Props :
        (phase[p] = "obs" /\ SetReturned(p))
        => /\ Len(calls') >= Len(subscribers[p])
           /\ \A i \in 1..Len(subscribers[p]) : calls'[i].h = subscribers[p][i]
           /\ \A i \in 1..Len(calls') :
                  (/\ calls'[i].h \in Attachers
                   /\ \A j \in 1..(i - 1) : calls'[j].h \notin Detachers)
                  => \E j \in (i + 1)..Len(calls') :
                         calls'[j].h = AttachTarget(calls'[i].h)]_vars

\* a pass over <<S, U, B>> has returned: S subscribed B, which the pass
\* invoked at its end, and U then unsubscribed B, which the pass invoked
\* all the same
C34_Witness ==
    /\ last.op = "set" /\ last.ok
    /\ Len(calls) = 4
    /\ calls[1].h = "S" /\ calls[2].h = "U" /\ calls[3].h = "B" /\ calls[4].h = "B"
    /\ subscribers[1] = <<"S", "U">>

\* C32: when the read of a decorated plain property resolves and the
\* property holds a defined value the application assigned in the meantime,
\* the continuation leaves the property with that value, issues the write
\* of that value as its one storage operation, and takes the key off the
\* StateManager registry.
C32_AssignedSurvivesRestore ==
    [][\A p \in Props :
        (/\ phase[p] = "readFulfilled" /\ phase'[p] = "applied"
         /\ p \in raced /\ value[p].t \notin {"undef", "null"})
        => /\ GetView(p)' = GetView(p)
           /\ ops' = <<[op |-> "set", key |-> propKey[p], val |-> GetView(p)]>>
           /\ inflight' = Append(inflight, ops'[1])
           /\ ~ MapHas(registry', propKey[p])]_vars

\* the storage held {n: 2} when property 1 was decorated, the application
\* assigned a string before the read resolved, and the continuation has run
C32_Witness ==
    /\ phase[1] = "applied" /\ 1 \in raced /\ phase[2] = "none"
    /\ readVal[1] = Json(2)
    /\ GetView(1) = Prim(1)
    /\ ops = <<[op |-> "set", key |-> propKey[1], val |-> Prim(1)]>>
    /\ registry = <<>>

\* the last operation was a set call that returned and during whose pass a
\* subscriber called set
ReenteredSet ==
    /\ last.op = "set" /\ last.ok
    /\ \E i \in 1..Len(calls) : calls[i].h \in Setters /\ calls[i].arg # StopValue

\* C35: when a set call on a StatefulProperty returns during whose pass a
\* subscriber called set(w), the last storage operation the call issued is
\* the write of the value the property holds, and the synchronous storage
\* holds that value.
C35_ReentrantWriteAgrees ==
    (ReenteredSet /\ phase[last.p] = "sync")
    => /\ ops # <<>>
       /\ ops[Len(ops)] = [op |-> "set", key |-> propKey[last.p],
                           val |-> GetView(last.p)]
       /\ store[propKey[last.p]] = GetView(last.p)

\* set({n: 1}) on a stateful property whose subscriber set 'done' during the
\* pass: two writes were issued, the inner and the outer one
C35_Witness ==
    /\ ReenteredSet /\ phase[last.p] = "sync"
    /\ last.arg = Json(1)
    /\ GetView(last.p) = StopValue
    /\ Len(ops) = 2
    /\ store[propKey[last.p]] = StopValue

\* the last value the last operation handed to handler hd
LastHanded(hd) ==
    LET i == CHOOSE j \in 1..Len(calls) :
                 calls[j].h = hd /\ \A l \in (j + 1)..Len(calls) : calls[l].h # hd
    IN  Deref(calls[i].arg, heap)

\* C36: when a set call with a value (not an updater) has returned, every
\* subscribed handler was last invoked with the value get() returns, also
\* when subscribers called set during the pass.
C36_HandlersSawFinalValue ==
    (last.op = "set" /\ last.ok /\ ~ isFunction(last.arg))
    => \A i \in 1..Len(subscribers[last.p]) :
           LastHanded(subscribers[last.p][i]) = GetView(last.p)

\* C37: when the continuation of the read applies a stored value to a
\* property, every handler subscribed to it since its construction is
\* invoked by the continuation exactly once, with a value equal to the
\* stored one.
C37_RestoreNotifiesOnce ==
    [][\A p \in Props :
        (/\ phase[p] = "readFulfilled" /\ phase'[p] = "applied"
         /\ readVal[p].t \notin {"undef", "null"})
        => /\ Len(calls') = Len(subscribers[p])
           /\ \A i \in 1..Len(calls') :
                  /\ calls'[i].h = subscribers[p][i]
                  /\ Deref(calls'[i].arg, heap') = readVal[p]]_vars

\* B subscribed while the read of the stored string was pending, no set was
\* called, and the continuation has invoked B once with the string
C37_Witness ==
    /\ phase[1] = "applied" /\ raced = {}
    /\ readVal[1] = Prim(1)
    /\ subscribers[1] = <<"B">>
    /\ calls = <<[h |-> "B", arg |-> Prim(1)]>>
    /\ value[1] = Prim(1)

\* the position of the first raising handler of a list
FirstThrower(subs) ==
    CHOOSE i \in 1..Len(subs) :
        subs[i] \in Throwers /\ \A j \in 1..(i - 1) : subs[j] \notin Throwers

\* C38: a set call with a value on a StatefulProperty one of whose
\* subscribers raises ends with the exception: the subscribers up to the
\* raising one were invoked and none after it, get() returns the new
\* value, and the call issued no storage operation and left the storage
\* as it was.
C38_SubscriberFailure ==
    [][\A p \in Props :
        (/\ phase[p] = "sync" /\ last'.op = "set" /\ last'.p = p
         /\ ~ isFunction(last'.arg)
         /\ \E i \in 1..Len(subscribers[p]) : subscribers[p][i] \in Throwers)
        => /\ ~ last'.ok
           /\ Len(calls') = FirstThrower(subscribers[p])
           /\ \A i \in 1..Len(calls') : calls'[i].h = subscribers[p][i]
           /\ GetView(p)' = last'.arg
           /\ ops' = <<>>
           /\ store' = store]_vars

\* set({n: 2}) over the subscribers <<A, T, B>>, the storage holding a
\* string: A and T were invoked, B was not, get() returns {n: 2} and the
\* storage still holds the string
C38_Witness ==
    /\ last.op = "set" /\ ~ last.ok /\ last.arg = Json(2)
    /\ subscribers[1] = <<"A", "T", "B">>
    /\ Len(calls) = 2 /\ calls[1].h = "A" /\ calls[2].h = "T"
    /\ GetView(1) = Json(2)
    /\ store[propKey[1]] = Prim(1)
    /\ ops = <<>>

\* C39: what an updater returns is dropped.  A set call with an updater
\* that returns, on a property that is unset or holds null or a primitive,
\* leaves get() as it was, invokes every subscriber, and on a
\* StatefulProperty issues the remove, or the write of the unchanged value;
\* and an updater that only returns a value leaves an object value as it
\* was too.
C39_UpdaterReturnIgnored ==
    [][\A p \in Props :
        (last'.op = "set" /\ last'.p = p /\ last'.ok /\ isFunction(last'.arg))
        => /\ last'.arg = FnReturn => GetView(p)' = GetView(p)
           /\ value[p].t # "obj"
              => /\ GetView(p)' = GetView(p)
                 /\ Len(calls') = Len(subscribers[p])
                 /\ \A i \in 1..Len(calls') : calls'[i].h = subscribers[p][i]
                 /\ phase[p] = "sync"
                    => ops' = <<IF value[p].t \in {"undef", "null"}
                                THEN [op |-> "remove", key |-> propKey[p], val |-> Undef]
                                ELSE [op |-> "set", key |-> propKey[p],
                                      val |-> value[p]]>>]_vars

\* set(draft => 'new') on a stateful property holding a string: the string
\* is still the value, B was invoked and the string was written again
C39_Witness ==
    /\ last.op = "set" /\ last.ok /\ last.arg = FnReturn
    /\ phase[1] = "sync" /\ value[1] = Prim(1)
    /\ Len(calls) = 1 /\ calls[1].h = "B"
    /\ ops = <<[op |-> "set", key |-> propKey[1], val |-> Prim(1)]>>

\* C40: a set call whose updater writes to the draft of an object value and
\* then raises ends with the exception, invokes no subscriber and issues no
\* storage operation, and get() returns the object with the write in it.
C40_NoRollback ==
    [][\A p \in Props, k \in Fields :
        (/\ last'.op = "set" /\ last'.p = p /\ last'.arg = FnThrow(k)
         /\ value[p].t = "obj")
        => /\ ~ last'.ok
           /\ GetView(p)' = Json(k)
           /\ calls' = <<>>
           /\ ops' = <<>>]_vars

\* the stateful property, restored from the stored {n: 1} or set to it, was
\* set with draft => { draft.n = 2; throw e }: get() returns {n: 2} and the
\* storage still holds {n: 1}
C40_Witness ==
    /\ last.op = "set" /\ ~ last.ok /\ last.arg = FnThrow(2)
    /\ phase[1] = "sync"
    /\ GetView(1) = Json(2)
    /\ store[propKey[1]] = Json(1)

====
